---------------------------- MODULE Spec2Model ----------------------------
(***************************************************************************)
(* Star Wars universe backend: the generation routes (image, story, anime  *)
(* sketch), the Gemini -> OpenAI orchestration behind them, and the        *)
(* Mongo-backed cache of generated artifacts.                              *)
(*                                                                         *)
(* One process is one HTTP request being served.  Node runs the code       *)
(* between two awaits atomically, so an action is the code from one await  *)
(* to the next.  A provider call leaves in the action that reaches its    *)
(* await and is answered in the next action of the request; a database     *)
(* operation is one action, taken when the database applies it.            *)
(***************************************************************************)
EXTENDS Integers, Sequences, FiniteSets, TLC

(***************************************************************************)
(* Bounds of the model.                                                    *)
(***************************************************************************)
\* longest url / name drawn by the id-derivation specification
MaxStrLen == 3

(***************************************************************************)
(* String helpers (JavaScript String / RegExp semantics).  Strings are     *)
(* strings; a character of s is the one-character string CharAt(s, k).     *)
(***************************************************************************)
Digits == {"0", "1", "2", "3", "4", "5", "6", "7", "8", "9"}
Whitespace == {" ", "\t", "\n"}

Min(S) == CHOOSE x \in S : \A y \in S : x <= y
Max(S) == CHOOSE x \in S : \A y \in S : y <= x

CharAt(s, k) == SubSeq(s, k, k)

\* positions i..j of s (1-based, inclusive); empty when j < i
Slice(s, i, j) == IF j < i THEN "" ELSE SubSeq(s, i, j)

\* s.substring(0, n)
Substring0(s, n) == Slice(s, 1, IF Len(s) < n THEN Len(s) ELSE n)

\* s.includes(sub)
Includes(s, sub) ==
  \E i \in 1..(Len(s) - Len(sub) + 1) : SubSeq(s, i, i + Len(sub) - 1) = sub

AllDigits(s) == \A k \in 1..Len(s) : CharAt(s, k) \in Digits

\* s.trim()
Trim(s) ==
  LET keep == {k \in 1..Len(s) : CharAt(s, k) \notin Whitespace}
  IN  IF keep = {} THEN "" ELSE SubSeq(s, Min(keep), Max(keep))

\* String.prototype.toLowerCase, character by character
UpperLetters == "ABCDEFGHIJKLMNOPQRSTUVWXYZ"
LowerLetters == "abcdefghijklmnopqrstuvwxyz"

LowerChar(c) ==
  LET at == {k \in 1..Len(UpperLetters) : CharAt(UpperLetters, k) = c}
  IN  IF at = {} THEN c ELSE CharAt(LowerLetters, Min(at))

RECURSIVE ToLowerCase(_)
ToLowerCase(s) ==
  IF s = "" THEN "" ELSE LowerChar(Head(s)) \o ToLowerCase(Tail(s))

\* s.split('/') : the pieces between the separators, empty pieces kept
RECURSIVE SplitFrom(_, _, _)
SplitFrom(s, k, cur) ==
  IF k > Len(s) THEN <<cur>>
  ELSE IF CharAt(s, k) = "/" THEN <<cur>> \o SplitFrom(s, k + 1, "")
  ELSE SplitFrom(s, k + 1, cur \o CharAt(s, k))

Split(s) == SplitFrom(s, 1, "")
\* .filter(Boolean) left out: the empty pieces are kept
FilterBooleanKeepsAll(parts) == parts


\* .filter(Boolean) on an array of strings: the empty strings are dropped
FilterBoolean(parts) == SelectSeq(parts, LAMBDA x : x # "")

\* s.replace(/\s+/g, '-') : left to right, each maximal run of whitespace
\* is consumed by one match and replaced by one hyphen
RECURSIVE ReplaceWsFrom(_, _)
ReplaceWsFrom(s, k) ==
  IF k > Len(s) THEN ""
  ELSE IF CharAt(s, k) \in Whitespace
       THEN LET run == Max({j \in k..Len(s) :
                              \A m \in k..j : CharAt(s, m) \in Whitespace})
            IN  "-" \o ReplaceWsFrom(s, run + 1)
       ELSE CharAt(s, k) \o ReplaceWsFrom(s, k + 1)

\* the same replace with the regex /\s/g : one hyphen per whitespace character
RECURSIVE ReplaceWhitespaceEach(_)
ReplaceWhitespaceEach(s) ==
  IF s = "" THEN ""
  ELSE (IF Head(s) \in Whitespace THEN "-" ELSE Head(s))
         \o ReplaceWhitespaceEach(Tail(s))

ReplaceWhitespace(s) == ReplaceWsFrom(s, 1)

\* url.match(/\/(\d+)\/?$/) : where the pattern can end when it starts at
\* position i: position i holds '/', a non-empty digit run follows, then an
\* optional '/', then the end of the input
UrlMatchEnd(url, i) ==
  LET n == Len(url)
  IN  {j \in (i + 1)..n :
         /\ AllDigits(Slice(url, i + 1, j))
         /\ \/ j = n
            \/ j = n - 1 /\ CharAt(url, n) = "/"}

UrlMatchStarts(url) ==
  {i \in 1..Len(url) : CharAt(url, i) = "/" /\ UrlMatchEnd(url, i) # {}}

\* utils/helpers.ts extractIdFromUrl: group 1 of the leftmost match (the
\* digit run is greedy), else the last non-empty piece, else 'unknown'
extractIdFromUrl(url) ==
  IF UrlMatchStarts(url) # {}
  THEN LET i == Min(UrlMatchStarts(url))
           j == Max(UrlMatchEnd(url, i))
       IN  Slice(url, i + 1, j)
  ELSE LET parts == FilterBoolean(Split(url))
       IN  IF parts # <<>> THEN parts[Len(parts)] ELSE "unknown"

\* routes: characterData.url ? extractIdFromUrl(url)
\*                           : name.toLowerCase().replace(/\s+/g, '-')
\* (an absent url and the empty string are both falsy)
DeriveCharacterId(data) ==
  IF data.hasUrl /\ data.url # ""
  THEN extractIdFromUrl(data.url)
  ELSE ReplaceWhitespace(ToLowerCase(data.name))

(***************************************************************************)
(* Error messages and their classification (geminiService.ts,              *)
(* openaiService.ts).                                                      *)
(***************************************************************************)
\* delay(5000) before the single Gemini retry
GeminiRetryDelayMs == 5000
\* delay(3000) before the OpenAI fallback
FallbackDelayMs == 3000
\* const maxRetries = 1 in OpenAIService.generateText
maxRetries == 1
\* waitTime = 5000 * (retryCount + 1)
OpenAIWaitBaseMs == 5000
\* message.substring(0, 150) in the combined error
ErrorSnippetLen == 150

\* lastError is null or an Error with a message
NullError == [isNull |-> TRUE, message |-> ""]
Error(m) == [isNull |-> FALSE, message |-> m]

MissingGeminiKey == "GEMINI_API_KEY is not set in environment variables"
MissingOpenAIKey == "OPENAI_API_KEY is not set in environment variables"
OpenAIEmptyResponse == "OpenAI API returned empty response"
OpenAIAuthFailed ==
  "OpenAI API authentication failed. Please check your OPENAI_API_KEY."
OpenAIQuotaExceeded ==
  "OpenAI API quota exceeded. Please wait 5-10 minutes and try again."
BothQuotaWithLinks ==
  "Both APIs have quota limits exceeded. Please wait 5-10 minutes before "
    \o "trying again. Free tier limits reset periodically. Check usage: "
    \o "Gemini (https://ai.google.dev/) and OpenAI "
    \o "(https://platform.openai.com/usage)"
BothQuota ==
  "Both APIs have quota limits exceeded. Please wait 5-10 minutes before "
    \o "trying again. Free tier limits reset periodically."

\* error.message.includes('429') || includes('quota')
\*   || includes('RESOURCE_EXHAUSTED')
IsGeminiQuotaError(m) ==
  Includes(m, "429") \/ Includes(m, "quota") \/ Includes(m, "RESOURCE_EXHAUSTED")

\* error.message.includes('404') || includes('not found')
\*   || includes('is not supported')
IsGeminiNotFound(m) ==
  Includes(m, "404") \/ Includes(m, "not found") \/ Includes(m, "is not supported")
\* the retry taken after every error
IsOpenAIRetryableAlways(m) == TRUE


\* generateText: the errors that are retried while retryCount < maxRetries
IsOpenAIRetryable(m) ==
  Includes(m, "quota") \/ Includes(m, "rate limit") \/ Includes(m, "429")

\* generateText lines 73-82: the error thrown once no retry is left
OpenAIFinalError(m) ==
  IF Includes(m, "API key") \/ Includes(m, "authentication")
  THEN OpenAIAuthFailed
  ELSE IF Includes(m, "quota") \/ Includes(m, "limit")
       THEN OpenAIQuotaExceeded
       ELSE "Failed to generate text with OpenAI: " \o m

\* 'story' in generateCharacterStory, 'prompt' in generateAnimeSketchPrompt
KindWord(kind) == IF kind = "story" THEN "story" ELSE "prompt"

\* the catch block of the OpenAI fallback, with the quota test on the
\* Gemini error left out
CombinedErrorNoGeminiQuota(kind, lastError, openaiErrorMsg) ==
  IF Includes(openaiErrorMsg, "quota") \/ Includes(openaiErrorMsg, "rate limit")
  THEN BothQuotaWithLinks
  ELSE IF ~lastError.isNull
       THEN "Failed to generate " \o KindWord(kind)
              \o " with both Gemini and OpenAI. Gemini error: "
              \o Substring0(lastError.message, ErrorSnippetLen)
              \o ". OpenAI error: "
              \o Substring0(openaiErrorMsg, ErrorSnippetLen)
       ELSE "Failed to generate " \o KindWord(kind)
              \o ". OpenAI fallback error: " \o openaiErrorMsg
\* the catch block of the OpenAI fallback with both errors embedded whole
CombinedErrorUntruncated(kind, lastError, openaiErrorMsg) ==
  IF Includes(openaiErrorMsg, "quota") \/ Includes(openaiErrorMsg, "rate limit")
  THEN BothQuotaWithLinks
  ELSE IF ~lastError.isNull
       THEN IF IsGeminiQuotaError(lastError.message)
            THEN BothQuota
            ELSE "Failed to generate " \o KindWord(kind)
                   \o " with both Gemini and OpenAI. Gemini error: "
                   \o lastError.message \o ". OpenAI error: " \o openaiErrorMsg
       ELSE "Failed to generate " \o KindWord(kind)
              \o ". OpenAI fallback error: " \o openaiErrorMsg


\* generateCharacterStory lines 511-527, generateAnimeSketchPrompt 388-404:
\* the error thrown when the OpenAI fallback fails too
CombinedError(kind, lastError, openaiErrorMsg) ==
  IF Includes(openaiErrorMsg, "quota") \/ Includes(openaiErrorMsg, "rate limit")
  THEN BothQuotaWithLinks
  ELSE IF ~lastError.isNull
       THEN IF IsGeminiQuotaError(lastError.message)
            THEN BothQuota
            ELSE "Failed to generate " \o KindWord(kind)
                   \o " with both Gemini and OpenAI. Gemini error: "
                   \o Substring0(lastError.message, ErrorSnippetLen)
                   \o ". OpenAI error: "
                   \o Substring0(openaiErrorMsg, ErrorSnippetLen)
       ELSE "Failed to generate " \o KindWord(kind)
              \o ". OpenAI fallback error: " \o openaiErrorMsg

(***************************************************************************)
(* State.                                                                  *)
(***************************************************************************)
VARIABLES
  env,      \* process.env: GEMINI_API_KEY, OPENAI_API_KEY,
            \* REPLICATE_API_TOKEN ("" when unset)
  replicate, \* the token of the cached Replicate client ("" while null)
  dbUp,     \* whether the MongoDB connection answers
  cache,    \* the collections CharacterImage ("image"), CharacterStory ("story")
  oracle,   \* what the providers may answer in this run
  proc      \* per request: where it is suspended, and its locals

vars == <<env, replicate, dbUp, cache, oracle, proc>>

Procs == {1, 2}
\* the list of the earlier revision, with a second model to fall through to
GeminiTextModelsTwo == <<"gemini-1.5-flash", "gemini-1.5-pro">>

\* the list of text models left empty: the loop body never runs
GeminiTextModelsNone == <<>>


GeminiTextModels == <<"gemini-1.5-flash">>
OpenAIModel == "gpt-3.5-turbo"

Idle ==
  [pc |-> "idle", kind |-> "", body |-> [wellTyped |-> FALSE], characterId |-> "",
   modelsToTry |-> <<>>, idx |-> 0, lastError |-> NullError, retryCount |-> 0,
   text |-> "", API_KEY |-> "", discovery |-> [form |-> "none"], events |-> <<>>, response |-> [status |-> 0]]

(***************************************************************************)
(* The log of one request: provider invocations and delays, in order.      *)
(***************************************************************************)
InvokeEvent(family, model, key) ==
  [type |-> "invoke", family |-> family, model |-> model, key |-> key,
   ms |-> 0, pending |-> TRUE, out |-> [ok |-> FALSE, val |-> ""]]

DelayEvent(ms) ==
  [type |-> "delay", family |-> "", model |-> "", key |-> "",
   ms |-> ms, pending |-> FALSE, out |-> [ok |-> FALSE, val |-> ""]]

\* the response to the invocation in flight (always the last event)
Answered(events, out) ==
  [events EXCEPT ![Len(events)] = [@ EXCEPT !.pending = FALSE, !.out = out]]

(***************************************************************************)
(* Responses of the routes.                                                *)
(***************************************************************************)
\* the same response with a marker of the family added
GenerateOkMarked(artifact, cached, characterName) ==
  [status |-> 200, success |-> TRUE, artifact |-> artifact, cached |-> cached,
   characterName |-> characterName, usedFallbackFamily |-> FALSE]

\* res.json({success: true, story | imageUrl, cached, characterName})
GenerateOk(artifact, cached, characterName) ==
  [status |-> 200, success |-> TRUE, artifact |-> artifact, cached |-> cached,
   characterName |-> characterName]

\* res.status(code).json({success: false, error})
Failure(status, error) == [status |-> status, success |-> FALSE, error |-> error]

Respond(r, response) == [r EXCEPT !.pc = "done", !.response = response]

(***************************************************************************)
(* generateCharacterStory / generateAnimeSketchPrompt, run from one await  *)
(* to the next.  Each operator takes the request's record at the point     *)
(* where the code resumes and gives the record at the next await (or at    *)
(* the response).                                                          *)
(***************************************************************************)
\* the route's catch block: res.status(500).json({error: error.message})
ThrowToRoute(r, message) == Respond(r, Failure(500, message))

MissingReplicateToken == "REPLICATE_API_TOKEN is not set in environment variables"
ReplicateModel == "andite/anything-v5:latest"

\* the catch block of ReplicateService.generateAnimeSketch
ReplicateError(m) ==
  IF Includes(m, "API token") \/ Includes(m, "authentication")
  THEN "Replicate API authentication failed. Please check your REPLICATE_API_TOKEN."
  ELSE IF Includes(m, "quota") \/ Includes(m, "limit")
       THEN "Replicate API quota exceeded. Please try again later."
       ELSE "Failed to generate anime sketch: " \o m

\* the invocation of replicate.run: the log keeps the prompt it is given
ReplicateInvokeEvent(key, prompt) ==
  [type |-> "invoke", family |-> "replicate", model |-> ReplicateModel,
   key |-> key, ms |-> 0, pending |-> TRUE, out |-> [ok |-> FALSE, val |-> ""],
   input |-> prompt \o ", anime pencil sketch, clean line-art, manga style, "
                   \o "high detail"]

\* the sketch route with the prompt cached like a story: save() before the
\* response
ReturnTextSavesAll(r, text) == [r EXCEPT !.pc = "save", !.text = text]

\* ReplicateService.generateAnimeSketch up to its await of replicate.run;
\* getReplicate reads the token only while no client is cached
generateAnimeSketch(r) ==
  IF replicate = "" /\ env.REPLICATE_API_TOKEN = ""
  THEN ThrowToRoute(r, ReplicateError(MissingReplicateToken))
  ELSE [r EXCEPT !.pc = "replicate_wait",
                 !.events = Append(@, ReplicateInvokeEvent(
                             IF replicate = "" THEN env.REPLICATE_API_TOKEN
                                               ELSE replicate,
                             r.text))]

\* the service returned `text`: the story route builds the document and
\* awaits save() (the response is sent after it); the sketch route passes
\* the prompt on to Replicate
ReturnText(r, text) ==
  IF r.kind = "story"
  THEN [r EXCEPT !.pc = "save", !.text = text]
  ELSE generateAnimeSketch([r EXCEPT !.text = text])

\* OpenAIService.generateText up to its await of chat.completions.create
\* (getOpenAI throws inside the try when the key is unset), and its catch
\* block: retry after a delay, or throw the final error to the Gemini
\* service, whose catch block throws the combined error to the route
\* the catch block of generateText without the bound on retryCount
OpenAIFailedNoLimit(r, message) ==
  IF IsOpenAIRetryable(message)
  THEN [r EXCEPT !.pc = "openai_delay",
                 !.events = Append(@, DelayEvent(OpenAIWaitBaseMs * (r.retryCount + 1)))]
  ELSE ThrowToRoute(r, CombinedError(r.kind, r.lastError, OpenAIFinalError(message)))

OpenAIFailed(r, message) ==
  IF r.retryCount < maxRetries /\ IsOpenAIRetryable(message)
  THEN [r EXCEPT !.pc = "openai_delay",
                 !.events = Append(@, DelayEvent(OpenAIWaitBaseMs * (r.retryCount + 1)))]
  ELSE ThrowToRoute(r, CombinedError(r.kind, r.lastError, OpenAIFinalError(message)))

generateText(r) ==
  IF env.OPENAI_API_KEY = ""
  THEN OpenAIFailed(r, MissingOpenAIKey)
  ELSE [r EXCEPT !.pc = "openai_wait",
                 !.events = Append(@, InvokeEvent("openai", OpenAIModel,
                                                  env.OPENAI_API_KEY))]

\* the fallback entered without the pause after a Gemini quota error
FallbackNoDelay(r) == generateText([r EXCEPT !.retryCount = 0])
\* the fallback entered with the pause taken after every Gemini error
FallbackAlwaysDelays(r) ==
  [r EXCEPT !.pc = "fallback_delay",
            !.events = Append(@, DelayEvent(FallbackDelayMs))]


\* after the loop over modelsToTry: pause 3 s after a quota error, then
\* fall back to OpenAI
Fallback(r) ==
  IF ~r.lastError.isNull /\ IsGeminiQuotaError(r.lastError.message)
  THEN [r EXCEPT !.pc = "fallback_delay",
                 !.events = Append(@, DelayEvent(FallbackDelayMs))]
  ELSE generateText([r EXCEPT !.retryCount = 0])

\* the catch block of the first attempt: record the error; a quota error is
\* retried once after 5 s, every other error moves to the next model
RECURSIVE TryModel(_)
\* the catch block with the 5 s delay and the retry taken after every
\* error, whatever its message
GeminiFailedRetriesAll(r, message) ==
  [r EXCEPT !.lastError = Error(message),
            !.pc = "gemini_delay",
            !.events = Append(@, DelayEvent(GeminiRetryDelayMs))]


GeminiFailed(r, message) ==
  LET r1 == [r EXCEPT !.lastError = Error(message)]
  IN  IF IsGeminiQuotaError(message)
      THEN [r1 EXCEPT !.pc = "gemini_delay",
                      !.events = Append(@, DelayEvent(GeminiRetryDelayMs))]
      ELSE TryModel([r1 EXCEPT !.idx = @ + 1])
\* one iteration with a missing Gemini key thrown to the route instead of
\* being caught: the chain ends without the fallback
TryModelKeyAborts(r) ==
  IF r.idx > Len(r.modelsToTry)
  THEN Fallback(r)
  ELSE IF env.GEMINI_API_KEY = ""
       THEN ThrowToRoute(r, MissingGeminiKey)
       ELSE [r EXCEPT !.pc = "gemini_wait",
                      !.events = Append(@, InvokeEvent("gemini", r.modelsToTry[r.idx],
                                                       env.GEMINI_API_KEY))]


\* one iteration of `for (const modelName of modelsToTry)` up to the await
\* of generateContent (getGenAI throws inside the try when the key is unset)
TryModel(r) ==
  IF r.idx > Len(r.modelsToTry)
  THEN Fallback(r)
  ELSE IF env.GEMINI_API_KEY = ""
       THEN GeminiFailed(r, MissingGeminiKey)
       ELSE [r EXCEPT !.pc = "gemini_wait",
                      !.events = Append(@, InvokeEvent("gemini", r.modelsToTry[r.idx],
                                                       env.GEMINI_API_KEY))]
\* the catch block with the retry left out: after the 5 s delay the loop
\* moves on
RetryModelSkipped(r) == TryModel([r EXCEPT !.idx = @ + 1])


\* the retry after the 5 s delay; its failure (retryError) is only logged
RetryModel(r) ==
  IF env.GEMINI_API_KEY = ""
  THEN TryModel([r EXCEPT !.idx = @ + 1])
  ELSE [r EXCEPT !.pc = "gemini_retry_wait",
                 !.events = Append(@, InvokeEvent("gemini", r.modelsToTry[r.idx],
                                                  env.GEMINI_API_KEY))]

\* the first attempt with the `return` on success lost: the text is kept
\* but the code runs on into the fallback
GeminiRepliedNoReturn(r, out) ==
  IF out.ok THEN Fallback([r EXCEPT !.text = Trim(out.val)])
  ELSE GeminiFailed(r, out.val)

\* after the await of the first generateContent: the text is returned
\* trimmed, an error goes to the catch block
GeminiReplied(r, out) ==
  IF out.ok THEN ReturnText(r, Trim(out.val)) ELSE GeminiFailed(r, out.val)
\* the retry with the `return` on success lost: the text is kept but the
\* code runs on to the next model and into the fallback
GeminiRetryRepliedFallsThrough(r, out) ==
  TryModel([r EXCEPT !.idx = @ + 1,
                     !.text = IF out.ok THEN Trim(out.val) ELSE @])


\* after the await of the retried generateContent
GeminiRetryReplied(r, out) ==
  IF out.ok THEN ReturnText(r, Trim(out.val))
  ELSE TryModel([r EXCEPT !.idx = @ + 1])

\* after the await of chat.completions.create: empty content is an error
OpenAIReplied(r, out) ==
  IF ~out.ok THEN OpenAIFailed(r, out.val)
  ELSE IF out.val = "" THEN OpenAIFailed(r, OpenAIEmptyResponse)
  ELSE ReturnText(r, Trim(out.val))

generateCharacterStory(r) ==
  TryModel([r EXCEPT !.modelsToTry = GeminiTextModels, !.idx = 1,
                     !.lastError = NullError])

(***************************************************************************)
(* generateCharacterImage (geminiService.ts, the multi-model version).     *)
(***************************************************************************)
defaultModelsToTry ==
  <<"gemini-3-pro-image-preview", "gemini-2.5-flash-exp", "gemini-2.0-flash-exp",
    "gemini-1.5-flash-latest", "gemini-1.5-pro-latest">>

DiscoverEvent(key) ==
  [type |-> "discover", family |-> "gemini", model |-> "", key |-> key,
   ms |-> 0, pending |-> TRUE, out |-> [ok |-> FALSE, val |-> ""]]

\* s.replace(pat, '') : the first occurrence of pat is removed
RemoveFirst(s, pat) ==
  LET at == {i \in 1..(Len(s) - Len(pat) + 1) : SubSeq(s, i, i + Len(pat) - 1) = pat}
  IN  IF at = {} THEN s
      ELSE Slice(s, 1, Min(at) - 1) \o Slice(s, Min(at) + Len(pat), Len(s))

\* what listAvailableModels returns for a reply of the models endpoint:
\* data.models when it is truthy, [] for a transport failure, a non-OK
\* status, an unparseable body or a body without models
listAvailableModels(reply) ==
  IF reply.form = "json" /\ reply.hasModels
  THEN [isArray |-> reply.isArray, names |-> reply.names]
  ELSE [isArray |-> TRUE, names |-> <<>>]
\* the test on the name without toLowerCase()
IsImageModelNameCaseSensitive(name) ==
  Includes(name, "image") \/ Includes(name, "imagen")


\* model.name?.toLowerCase().includes('image') || ...includes('imagen')
IsImageModelName(name) ==
  Includes(ToLowerCase(name), "image") \/ Includes(ToLowerCase(name), "imagen")

\* candidate resolution with the final `if (modelsToTry.length === 0)` and
\* the catch of listError left out
ResolveCandidatesNoDefaults(available) ==
  LET hits == {k \in 1..Len(available.names) : IsImageModelName(available.names[k])}
  IN  IF available.isArray /\ hits # {}
      THEN <<RemoveFirst(available.names[Min(hits)], "models/")>>
      ELSE <<>>

\* lines 126-157: the first listed model whose name hints at images, else
\* the default list; availableModels.find throws on a non-array, which the
\* inner catch turns into the default list
ResolveCandidates(available) ==
  LET hits == {k \in 1..Len(available.names) : IsImageModelName(available.names[k])}
  IN  IF available.isArray /\ hits # {}
      THEN <<RemoveFirst(available.names[Min(hits)], "models/")>>
      ELSE defaultModelsToTry

ImageFailedMessage(lastError) ==
  "Image generation failed. The gemini-2.0-flash-preview-image-generation "
    \o "model was deprecated.\n\nTroubleshooting steps: [...]\n\nLast error: "
    \o (IF lastError.isNull THEN "Unknown error" ELSE lastError.message)
    \o "\n\nAlternative: Use the generateEnhancedPrompt() method to create a "
    \o "detailed prompt for use with other image generation services."
\* one iteration with lastError declared inside the loop: each iteration
\* starts without a recorded error
TryImageModelForgets(r) ==
  IF r.idx > Len(r.modelsToTry)
  THEN ThrowToRoute(r, ImageFailedMessage(r.lastError))
  ELSE [r EXCEPT !.pc = "image_wait",
                 !.lastError = NullError,
                 !.events = Append(@, InvokeEvent("gemini", r.modelsToTry[r.idx],
                                                  r.API_KEY))]


\* one iteration of the loop over modelsToTry up to the await of fetch
TryImageModel(r) ==
  IF r.idx > Len(r.modelsToTry)
  THEN ThrowToRoute(r, ImageFailedMessage(r.lastError))
  ELSE [r EXCEPT !.pc = "image_wait",
                 !.events = Append(@, InvokeEvent("gemini", r.modelsToTry[r.idx],
                                                  r.API_KEY))]
\* the parser with generatedImages consulted before the content parts
ParseImageDataGeneratedFirst(data) ==
  LET parts == IF data.candidates = <<>> THEN <<>> ELSE data.candidates[1].parts
      inline == {k \in 1..Len(parts) : parts[k].data # ""}
      gen == IF data.generatedImages = <<>>
             THEN ""
             ELSE LET g == data.generatedImages[1]
                  IN  IF g.imageBase64 # "" THEN g.imageBase64
                      ELSE IF g.bytesBase64Encoded # "" THEN g.bytesBase64Encoded
                      ELSE g.bytes
  IN  IF gen # "" THEN "data:image/png;base64," \o gen
      ELSE IF inline # {}
      THEN LET part == parts[Min(inline)]
           IN  "data:" \o (IF part.mimeType = "" THEN "image/png" ELSE part.mimeType)
                 \o ";base64," \o part.data
      ELSE ""


\* the data URI a parsed body yields ("" when no known shape matches)
ParseImageData(data) ==
  LET parts == IF data.candidates = <<>> THEN <<>> ELSE data.candidates[1].parts
      inline == {k \in 1..Len(parts) : parts[k].data # ""}
      gen == IF data.generatedImages = <<>>
             THEN ""
             ELSE LET g == data.generatedImages[1]
                  IN  IF g.imageBase64 # "" THEN g.imageBase64
                      ELSE IF g.bytesBase64Encoded # "" THEN g.bytesBase64Encoded
                      ELSE g.bytes
  IN  IF inline # {}
      THEN LET part == parts[Min(inline)]
           IN  "data:" \o (IF part.mimeType = "" THEN "image/png" ELSE part.mimeType)
                 \o ";base64," \o part.data
      ELSE IF gen # "" THEN "data:image/png;base64," \o gen
      ELSE ""

\* the loop body with a thrown error or a status other than 404 rethrown
\* to the route instead of being caught: the first such failure ends the
\* request
ImageRepliedFatalAborts(r, reply) ==
  LET next(q) == TryImageModel([q EXCEPT !.idx = @ + 1])
  IN  CASE reply.form = "throw" -> ThrowToRoute(r, reply.message)
        [] reply.form = "status" ->
             IF reply.status = "404"
             THEN next(r)
             ELSE ThrowToRoute(r, "API returned status " \o reply.status \o ": "
                                    \o reply.text)
        [] reply.form = "text" -> next(r)
        [] reply.form = "null" ->
             ThrowToRoute(r, "Cannot read properties of null (reading 'candidates')")
        [] OTHER ->
             IF ParseImageData(reply.data) # ""
             THEN [r EXCEPT !.pc = "save", !.text = ParseImageData(reply.data)]
             ELSE next(r)


\* the loop body after the await of fetch and of response.text()
ImageReplied(r, reply) ==
  LET next(q) == TryImageModel([q EXCEPT !.idx = @ + 1])
  IN  CASE reply.form = "throw" ->
             next([r EXCEPT !.lastError = Error(reply.message)])
        [] reply.form = "status" ->
             IF reply.status = "404"
             THEN next(r)
             ELSE next([r EXCEPT !.lastError =
                          Error("API returned status " \o reply.status \o ": "
                                  \o reply.text)])
        [] reply.form = "text" -> next(r)
        [] reply.form = "null" ->
             next([r EXCEPT !.lastError =
                     Error("Cannot read properties of null (reading 'candidates')")])
        [] OTHER ->
             IF ParseImageData(reply.data) # ""
             THEN [r EXCEPT !.pc = "save", !.text = ParseImageData(reply.data)]
             ELSE next(r)

\* after the await of listAvailableModels: resolve the candidates and start
\* the loop
ModelsListed(r, reply) ==
  TryImageModel([r EXCEPT !.discovery = reply,
                          !.modelsToTry = ResolveCandidates(listAvailableModels(reply)),
                          !.idx = 1])

\* generateCharacterImage up to its first await: getApiKey throws to the
\* route when the key is unset; listAvailableModels reads the key again in
\* the same tick and returns [] without a request when it is unset
generateCharacterImage(r) ==
  IF env.GEMINI_API_KEY = ""
  THEN ThrowToRoute(r, MissingGeminiKey)
  ELSE LET r1 == [r EXCEPT !.API_KEY = env.GEMINI_API_KEY, !.lastError = NullError]
       IN  IF env.GEMINI_API_KEY = ""
           THEN ModelsListed(r1, [form |-> "nokey"])
           ELSE [r1 EXCEPT !.pc = "discover_wait",
                           !.events = Append(@, DiscoverEvent(env.GEMINI_API_KEY))]

(***************************************************************************)
(* The cache collections (models/CharacterImage.ts, CharacterStory.ts).    *)
(***************************************************************************)
Document(characterName, characterId, artifact) ==
  [characterName |-> characterName, characterId |-> characterId,
   artifact |-> artifact]
\* findOne resolving null whatever the collection holds
FoundNone(coll, characterId) == {}


Found(coll, characterId) == {d \in cache[coll] : d.characterId = characterId}

\* save() with the unique index on characterId not enforced
CanSaveNoUnique(coll, doc) ==
  /\ dbUp
  /\ doc.characterName # "" /\ doc.characterId # "" /\ doc.artifact # ""

\* save(): the document is inserted unless the connection is down, a
\* required string is empty, or the unique index on characterId rejects it
CanSave(coll, doc) ==
  /\ dbUp
  /\ doc.characterName # "" /\ doc.characterId # "" /\ doc.artifact # ""
  /\ Found(coll, doc.characterId) = {}

Collection(kind) == IF kind \in {"image", "getImage"} THEN "image" ELSE "story"

(***************************************************************************)
(* Requests.                                                               *)
(***************************************************************************)
Letters == {CharAt(LowerLetters, k) : k \in 1..26} \cup {CharAt(UpperLetters, k) : k \in 1..26}

\* z.string().url(): the string parses as a URL (a scheme of letters, then ':')
IsUrl(s) ==
  \E k \in 2..Len(s) :
    CharAt(s, k) = ":" /\ \A m \in 1..(k - 1) : CharAt(s, m) \in Letters
\* the schemas with only the types of the fields checked
ValidTypesOnly(kind, body) == body.wellTyped


\* characterDataSchema.parse / characterNameSchema.parse succeed
Valid(kind, body) ==
  /\ body.wellTyped
  /\ IF kind = "sketch" THEN Len(body.name) >= 1
     ELSE body.hasUrl => IsUrl(body.url)

Body(wellTyped, name, hasUrl, url) ==
  [url |-> url, hasUrl |-> hasUrl, name |-> name, wellTyped |-> wellTyped]

RequestBodies ==
  {Body(TRUE, "Luke Skywalker", TRUE, "https://x/people/1/"),
   Body(TRUE, "Leia Organa", FALSE, ""),
   Body(TRUE, "", FALSE, ""),
   Body(TRUE, "Luke Skywalker", TRUE, "people/1"),
   Body(FALSE, "", FALSE, "")}

RequestIds == {"1", "leia-organa", "generate"}

(***************************************************************************)
(* What the providers may answer.                                          *)
(***************************************************************************)
Ok(val) == [ok |-> TRUE, val |-> val]
Fail(val) == [ok |-> FALSE, val |-> val]

GeminiOutcomes ==
  {Ok("Story A"), Ok("  Story B\n"), Ok(" \n"),
   Fail("[429 Too Many Requests]"),
   Fail("You exceeded your current quota"),
   Fail("RESOURCE_EXHAUSTED"),
   Fail("[GoogleGenerativeAI Error]: Error fetching from "
          \o "https://generativelanguage.googleapis.com/v1beta/models/"
          \o "gemini-1.5-flash:generateContent: [404 Not Found] "
          \o "models/gemini-1.5-flash is not found for API version "
          \o "v1beta, or is not supported for generateContent."),
   Fail("[503 Service Unavailable] The model is overloaded.")}

OpenAIOutcomes ==
  {Ok("Story C"), Ok(" Story D "), Ok(""), Ok("  "),
   Fail("429 You exceeded your current quota, please check your plan and "
          \o "billing details."),
   Fail("429 status code (no body)"),
   Fail("rate limit reached"),
   Fail("401 Incorrect API key provided"),
   Fail("400 This model's maximum context length is 4097 tokens. However, "
          \o "your messages resulted in 5120 tokens. Please reduce the "
          \o "length of the messages.")}

ReplicateOutcomes ==
  {[ok |-> TRUE, form |-> "string", n |-> 1, val |-> "https://replicate.delivery/a.png"],
   [ok |-> TRUE, form |-> "array", n |-> 1, val |-> "https://replicate.delivery/b.png"],
   [ok |-> TRUE, form |-> "array", n |-> 0, val |-> ""],
   [ok |-> TRUE, form |-> "null", n |-> 0, val |-> ""],
   [ok |-> FALSE, form |-> "", n |-> 0, val |-> "Unauthenticated: bad API token"],
   [ok |-> FALSE, form |-> "", n |-> 0, val |-> "Request failed"]}

DiscoverReplies ==
  {[form |-> "throw"], [form |-> "status"], [form |-> "text"],
   [form |-> "json", hasModels |-> FALSE, isArray |-> TRUE, names |-> <<>>],
   [form |-> "json", hasModels |-> TRUE, isArray |-> FALSE, names |-> <<>>],
   [form |-> "json", hasModels |-> TRUE, isArray |-> TRUE,
    names |-> <<"models/gemini-1.5-flash">>],
   [form |-> "json", hasModels |-> TRUE, isArray |-> TRUE,
    names |-> <<"models/gemini-1.5-flash", "",
                "models/Imagen-3.0-generate-001",
                "models/gemini-2.0-flash-preview-image-generation">>]}

Part(data, mimeType) == [data |-> data, mimeType |-> mimeType]
Generated(a, b, c) == [imageBase64 |-> a, bytesBase64Encoded |-> b, bytes |-> c]
Data(parts, generatedImages) ==
  [candidates |-> IF parts = <<>> THEN <<>> ELSE <<[parts |-> parts]>>,
   generatedImages |-> generatedImages]

ImageReplies ==
  {[form |-> "throw", message |-> "fetch failed"],
   [form |-> "status", status |-> "404", text |-> "{}"],
   [form |-> "status", status |-> "429",
    text |-> "Quota exceeded for quota metric 'Generate Content API requests "
               \o "per minute' and limit 'GenerateContent request limit per "
               \o "minute for a region' of service "
               \o "'generativelanguage.googleapis.com' for consumer "
               \o "'project_number:1'."],
   [form |-> "text"],
   [form |-> "json", data |-> Data(<<Part("", ""), Part("QUJD", "image/jpeg")>>, <<>>)],
   [form |-> "json", data |-> Data(<<Part("", "")>>, <<Generated("", "REVG", "R0hJ")>>)],
   [form |-> "json", data |-> Data(<<>>, <<>>)]}

FullOracle ==
  [scripted |-> FALSE, gemini |-> GeminiOutcomes, openai |-> OpenAIOutcomes,
   replicate |-> ReplicateOutcomes, discover |-> DiscoverReplies,
   image |-> ImageReplies]

\* the invocations of a provider that request r has had answered
Asked(r, provider) ==
  Cardinality({k \in 1..Len(r.events) :
                 /\ ~r.events[k].pending
                 /\ r.events[k].type = IF provider = "discover" THEN "discover"
                                       ELSE "invoke"
                 /\ r.events[k].family = IF provider \in {"discover", "image"}
                                         THEN "gemini" ELSE provider})

\* what the provider may answer to the invocation of request r in flight:
\* anything it can answer, or, when the run is scripted, the answer the
\* script holds for the n-th invocation by a request (the last one from
\* the end of the script on)
Answers(r, provider) ==
  IF oracle.scripted
  THEN LET script == oracle[provider]
           n == Asked(r, provider) + 1
       IN  {script[IF n > Len(script) THEN Len(script) ELSE n]}
  ELSE oracle[provider]

(***************************************************************************)
(* Actions: one per resumption of a request.                               *)
(***************************************************************************)
\* the request's record is replaced, with lastError kept in a field of the
\* service, which every request in flight shares
CommitSharedLastError(p, r) ==
  /\ proc' = [q \in Procs |->
                IF q = p THEN r
                ELSE [proc[q] EXCEPT !.lastError = r.lastError]]
  /\ replicate' = IF r.pc = "replicate_wait" THEN r.events[Len(r.events)].key
                  ELSE replicate


\* the request's record is replaced; a Replicate invocation that has just
\* left was made with the cached client, which getReplicate creates once
Commit(p, r) ==
  /\ proc' = [proc EXCEPT ![p] = r]
  /\ replicate' = IF r.pc = "replicate_wait" THEN r.events[Len(r.events)].key
                  ELSE replicate

\* POST /api/images/generate, /api/stories/generate, /api/anime-sketch/generate:
\* validation, the character id, and the code up to the first await, for a
\* route out of `kinds` and a body out of `bodies`
StartGenerateOf(p, kinds, bodies) ==
  /\ proc[p].pc = "idle"
  /\ \E kind \in kinds, body \in bodies :
       LET r == [proc[p] EXCEPT !.kind = kind, !.body = body]
       IN  Commit(p,
             IF ~Valid(kind, body)
             THEN Respond(r, Failure(400, IF kind = "sketch"
                                          THEN "Invalid request data"
                                          ELSE "Invalid character data"))
             ELSE IF kind = "sketch"
                  THEN generateCharacterStory(r)
                  ELSE [r EXCEPT !.characterId = DeriveCharacterId(body),
                                 !.pc = "lookup"])
  /\ UNCHANGED <<env, dbUp, cache, oracle>>

GenerateKinds == {"image", "story", "sketch"}

StartGenerate(p) == StartGenerateOf(p, GenerateKinds, RequestBodies)

\* the generate routes with a database error passed on to the route's
\* catch block
LookupThrows(p) ==
  LET r == proc[p]
      hit == Found(Collection(r.kind), r.characterId)
  IN  /\ r.pc = "lookup"
      /\ IF ~dbUp
         THEN Commit(p, ThrowToRoute(r, "MongoDB not available"))
         ELSE IF hit # {}
              THEN \E d \in hit : Commit(p, Respond(r, GenerateOk(d.artifact, TRUE,
                                                                d.characterName)))
              ELSE Commit(p, IF r.kind = "story" THEN generateCharacterStory(r)
                             ELSE generateCharacterImage(r))
      /\ UNCHANGED <<env, dbUp, cache, oracle>>
\* the generate routes with a record reserved at the lookup: a miss
\* inserts a placeholder before the generation starts
LookupReserves(p) ==
  LET r == proc[p]
      hit == Found(Collection(r.kind), r.characterId)
  IN  /\ r.pc = "lookup"
      /\ IF dbUp /\ hit # {}
         THEN /\ \E d \in hit : Commit(p, Respond(r, GenerateOk(d.artifact, TRUE,
                                                                d.characterName)))
              /\ cache' = cache
         ELSE /\ Commit(p, IF r.kind = "story" THEN generateCharacterStory(r)
                           ELSE generateCharacterImage(r))
              /\ cache' = [cache EXCEPT ![Collection(r.kind)] =
                             @ \cup {Document(r.body.name, r.characterId, "pending")}]
      /\ UNCHANGED <<env, dbUp, oracle>>


\* the await of findOne({characterId}) in the generate routes: a cached
\* document is returned; a miss or a database error starts the generation
Lookup(p) ==
  LET r == proc[p]
      hit == Found(Collection(r.kind), r.characterId)
  IN  /\ r.pc = "lookup"
      /\ IF dbUp /\ hit # {}
         THEN \E d \in hit : Commit(p, Respond(r, GenerateOk(d.artifact, TRUE,
                                                           d.characterName)))
         ELSE Commit(p, IF r.kind = "story" THEN generateCharacterStory(r)
                        ELSE generateCharacterImage(r))
      /\ UNCHANGED <<env, dbUp, cache, oracle>>

\* the await of generateContent, first attempt
GeminiResponse(p) ==
  LET r == proc[p]
  IN  /\ r.pc = "gemini_wait"
      /\ \E out \in Answers(r, "gemini") :
           LET r1 == [r EXCEPT !.events = Answered(@, out)]
           IN  Commit(p, GeminiReplied(r1, out))
      /\ UNCHANGED <<env, dbUp, cache, oracle>>

\* the await of delay(5000)
GeminiRetryDelay(p) ==
  /\ proc[p].pc = "gemini_delay"
  /\ Commit(p, RetryModel(proc[p]))
  /\ UNCHANGED <<env, dbUp, cache, oracle>>

\* the await of generateContent, the retry
GeminiRetryResponse(p) ==
  LET r == proc[p]
  IN  /\ r.pc = "gemini_retry_wait"
      /\ \E out \in Answers(r, "gemini") :
           LET r1 == [r EXCEPT !.events = Answered(@, out)]
           IN  Commit(p, GeminiRetryReplied(r1, out))
      /\ UNCHANGED <<env, dbUp, cache, oracle>>

\* the await of delay(3000)
FallbackDelay(p) ==
  /\ proc[p].pc = "fallback_delay"
  /\ Commit(p, generateText([proc[p] EXCEPT !.retryCount = 0]))
  /\ UNCHANGED <<env, dbUp, cache, oracle>>

\* the await of chat.completions.create
OpenAIResponse(p) ==
  LET r == proc[p]
  IN  /\ r.pc = "openai_wait"
      /\ \E out \in Answers(r, "openai") :
           LET r1 == [r EXCEPT !.events = Answered(@, out)]
           IN  Commit(p, OpenAIReplied(r1, out))
      /\ UNCHANGED <<env, dbUp, cache, oracle>>
\* the retry entered with the retry count left as it was: a retryable
\* error is retried without end
OpenAIRetryDelaySameCount(p) ==
  /\ proc[p].pc = "openai_delay"
  /\ Commit(p, generateText(proc[p]))
  /\ UNCHANGED <<env, dbUp, cache, oracle>>


\* the await of delay(waitTime), then generateText(prompt, model, retryCount + 1)
OpenAIRetryDelay(p) ==
  /\ proc[p].pc = "openai_delay"
  /\ Commit(p, generateText([proc[p] EXCEPT !.retryCount = @ + 1]))
  /\ UNCHANGED <<env, dbUp, cache, oracle>>

\* the await of replicate.run in the sketch route
ReplicateResponse(p) ==
  LET r == proc[p]
  IN  /\ r.pc = "replicate_wait"
      /\ \E out \in Answers(r, "replicate") :
           LET r1 == [r EXCEPT !.events = Answered(@, out)]
               message ==
                 IF ~out.ok THEN out.val
                 ELSE IF out.form = "null" \/ (out.form = "string" /\ out.val = "")
                      THEN "Replicate API returned empty output"
                      ELSE IF out.val = ""
                           THEN "Replicate API returned empty image URL"
                           ELSE ""
           IN  Commit(p,
                 IF message # ""
                 THEN ThrowToRoute(r1, ReplicateError(message))
                 ELSE Respond(r1, [status |-> 200, success |-> TRUE,
                                   artifact |-> out.val, prompt |-> r.text,
                                   characterName |-> r.body.name]))
      /\ UNCHANGED <<env, dbUp, cache, oracle>>

\* the await of listAvailableModels
DiscoverResponse(p) ==
  LET r == proc[p]
  IN  /\ r.pc = "discover_wait"
      /\ \E reply \in Answers(r, "discover") :
           Commit(p, ModelsListed([r EXCEPT !.events =
                                     Answered(@, Ok(""))], reply))
      /\ UNCHANGED <<env, dbUp, cache, oracle>>

\* what the log keeps of a reply to an image invocation: the data URI it
\* yields, or the message of the error the iteration throws (fetch
\* rejecting, a status other than 404, a body that parses to null), or
\* nothing
ImageOutcome(reply) ==
  LET uri == IF reply.form = "json" THEN ParseImageData(reply.data) ELSE ""
  IN  [ok |-> uri # "",
       val |-> CASE uri # "" -> uri
                 [] reply.form = "throw" -> reply.message
                 [] reply.form = "status" /\ reply.status # "404" ->
                      "API returned status " \o reply.status \o ": " \o reply.text
                 [] reply.form = "null" ->
                      "Cannot read properties of null (reading 'candidates')"
                 [] OTHER -> ""]

\* the await of fetch (and of response.text()) in the loop over modelsToTry
ImageResponse(p) ==
  LET r == proc[p]
  IN  /\ r.pc = "image_wait"
      /\ \E reply \in Answers(r, "image") :
           LET r1 == [r EXCEPT !.events = Answered(@, ImageOutcome(reply))]
           IN  Commit(p, ImageReplied(r1, reply))
      /\ UNCHANGED <<env, dbUp, cache, oracle>>
\* the generate routes answering a stored generation as if it were cached
SaveMarksCached(p) ==
  LET r == proc[p]
      coll == Collection(r.kind)
      doc == Document(r.body.name, r.characterId, r.text)
  IN  /\ r.pc = "save"
      /\ cache' = IF CanSave(coll, doc) THEN [cache EXCEPT ![coll] = @ \cup {doc}]
                  ELSE cache
      /\ Commit(p, Respond(r, GenerateOk(r.text, TRUE, r.body.name)))
      /\ UNCHANGED <<env, dbUp, oracle>>


\* the await of save() in the generate routes, then the response; a failed
\* save is only logged
Save(p) ==
  LET r == proc[p]
      coll == Collection(r.kind)
      doc == Document(r.body.name, r.characterId, r.text)
  IN  /\ r.pc = "save"
      /\ cache' = IF CanSave(coll, doc)
                  THEN [cache EXCEPT ![coll] = @ \cup {doc}]
                  ELSE cache
      /\ Commit(p, Respond(r, GenerateOk(r.text, FALSE, r.body.name)))
      /\ UNCHANGED <<env, dbUp, oracle>>

\* GET /api/images/:characterId, GET /api/stories/:characterId up to the
\* await of findOne, for an id out of `ids`
StartGetOf(p, ids) ==
  /\ proc[p].pc = "idle"
  /\ \E kind \in {"getImage", "getStory"}, id \in ids :
       LET r == [proc[p] EXCEPT !.kind = kind, !.characterId = id]
       IN  Commit(p,
             IF id = "generate"
             THEN Respond(r, Failure(404,
                    IF kind = "getImage"
                    THEN "Use POST /api/images/generate to generate images"
                    ELSE "Use POST /api/stories/generate to generate stories"))
             ELSE [r EXCEPT !.pc = "get_lookup"])
  /\ UNCHANGED <<env, dbUp, cache, oracle>>

StartGet(p) == StartGetOf(p, RequestIds)

\* the GET route with a miss handed on to the generation
GetLookupGenerates(p) ==
  LET r == proc[p]
      hit == Found(Collection(r.kind), r.characterId)
  IN  /\ r.pc = "get_lookup"
      /\ IF ~dbUp \/ hit = {}
         THEN Commit(p, generateCharacterStory(r))
         ELSE \E d \in hit :
                Commit(p, Respond(r, GenerateOk(d.artifact, TRUE,
                                                d.characterName)))
      /\ UNCHANGED <<env, dbUp, cache, oracle>>
\* the GET routes with the database error passed on to the outer catch block
GetLookupRethrows(p) ==
  LET r == proc[p]
      hit == Found(Collection(r.kind), r.characterId)
  IN  /\ r.pc = "get_lookup"
      /\ IF ~dbUp
         THEN Commit(p, Respond(r, Failure(500,
                IF r.kind = "getImage" THEN "Failed to retrieve image"
                ELSE "Failed to retrieve story")))
         ELSE IF hit = {}
              THEN Commit(p, Respond(r, Failure(404,
                     IF r.kind = "getImage"
                     THEN "Image not found for this character"
                     ELSE "Story not found for this character")))
              ELSE \E d \in hit :
                     Commit(p, Respond(r, GenerateOk(d.artifact, TRUE,
                                                     d.characterName)))
      /\ UNCHANGED <<env, dbUp, cache, oracle>>


\* the await of findOne in the GET routes
GetLookup(p) ==
  LET r == proc[p]
      hit == Found(Collection(r.kind), r.characterId)
  IN  /\ r.pc = "get_lookup"
      /\ IF ~dbUp
         THEN Commit(p, Respond(r, Failure(404,
                "Caching not available - MongoDB not configured")))
         ELSE IF hit = {}
              THEN Commit(p, Respond(r, Failure(404,
                     IF r.kind = "getImage"
                     THEN "Image not found for this character"
                     ELSE "Story not found for this character")))
              ELSE \E d \in hit :
                     Commit(p, Respond(r, GenerateOk(d.artifact, TRUE,
                                                     d.characterName)))
      /\ UNCHANGED <<env, dbUp, cache, oracle>>

\* the TTL index on createdAt: MongoDB deletes a document after 30 days
Expire ==
  /\ dbUp
  /\ \E coll \in {"image", "story"} : \E d \in cache[coll] :
       cache' = [cache EXCEPT ![coll] = @ \ {d}]
  /\ UNCHANGED <<env, replicate, dbUp, oracle, proc>>

Step(p) ==
  \/ StartGenerate(p)
  \/ Lookup(p)
  \/ GeminiResponse(p)
  \/ GeminiRetryDelay(p)
  \/ GeminiRetryResponse(p)
  \/ FallbackDelay(p)
  \/ OpenAIResponse(p)
  \/ OpenAIRetryDelay(p)
  \/ ReplicateResponse(p)
  \/ DiscoverResponse(p)
  \/ ImageResponse(p)
  \/ Save(p)
  \/ StartGet(p)
  \/ GetLookup(p)

(***************************************************************************)
(* Specification: one request served from any environment the server can   *)
(* be in (keys set or unset, database up or down, a cache that earlier     *)
(* requests have filled).                                                  *)
(***************************************************************************)
Environments ==
  {[GEMINI_API_KEY |-> g, OPENAI_API_KEY |-> o, REPLICATE_API_TOKEN |-> t] :
     g \in {"", "AIza-1"}, o \in {"", "sk-1"}, t \in {"", "r8-1"}}

\* caches that earlier requests leave behind (a character named
\* "generate" has the id "generate")
Caches ==
  {[image |-> {}, story |-> {}],
   [image |-> {Document("Luke Skywalker", "1", "data:image/png;base64,T0xE")},
    story |-> {Document("Leia Organa", "leia-organa", "Old story")}],
   [image |-> {Document("generate", "generate", "data:image/png;base64,R0VO")},
    story |-> {Document("Luke Skywalker", "1", "Old story")}]}

Init ==
  /\ env \in Environments
  /\ replicate = ""
  /\ dbUp \in BOOLEAN
  /\ cache \in Caches
  /\ oracle = FullOracle
  /\ proc = [p \in Procs |-> Idle]

Next == Step(1) \/ Expire

Spec == Init /\ [][Next]_vars

(***************************************************************************)
(* Specification of the id derivation: one generate request whose url or   *)
(* name is any string of at most MaxStrLen characters over a small         *)
(* alphabet (digits, '/', '?', a letter; a capital, blanks, a hyphen).     *)
(***************************************************************************)
RECURSIVE Strings(_, _)
Strings(alphabet, n) ==
  IF n = 0 THEN {""}
  ELSE LET S == Strings(alphabet, n - 1)
       IN  S \cup {s \o c : s \in S, c \in alphabet}

IdBodies ==
  {Body(TRUE, "Luke Skywalker", TRUE, "https://x/people/" \o t) :
     t \in Strings({"1", "2", "/", "?", "a"}, MaxStrLen)}
  \cup {Body(TRUE, n, FALSE, "") : n \in Strings({"L", " ", "\t", "-"}, MaxStrLen)}
  \cup {Body(TRUE, "Luke Skywalker", TRUE, "https://x/people/1/"),
        Body(TRUE, "Leia Organa", FALSE, "")}

InitId ==
  /\ env \in Environments
  /\ replicate = ""
  /\ dbUp = TRUE
  /\ cache = [image |-> {}, story |-> {}]
  /\ oracle = FullOracle
  /\ proc = [p \in Procs |-> Idle]

NextId == StartGenerateOf(1, GenerateKinds, IdBodies)

SpecId == InitId /\ [][NextId]_vars

(***************************************************************************)
(* Specification of a request served twice: request 1 with the store       *)
(* available, then, once the store has become unavailable, request 2 with  *)
(* the body of request 1.  The providers answer from a script, so the n-th *)
(* invocation of a provider gets the same answer in both requests.         *)
(***************************************************************************)
Scripts(outcomes) == {<<a, b>> : a \in outcomes, b \in outcomes}

ScriptedOracles ==
  {[scripted |-> TRUE, gemini |-> g, openai |-> o,
    replicate |-> <<[ok |-> FALSE, form |-> "", n |-> 0, val |-> "Request failed"]>>,
    discover |-> <<[form |-> "throw"]>>,
    image |-> <<[form |-> "text"]>>] :
     g \in Scripts({Ok("Story A"), Ok(" \n"), Fail("[429 Too Many Requests]"),
                    Fail("[503 Service Unavailable] The model is overloaded.")}),
     o \in Scripts({Ok("Story C"), Fail("429 status code (no body)"),
                    Fail("Connection error.")})}
  \cup
  {[scripted |-> TRUE, gemini |-> <<Ok("Story A")>>, openai |-> <<Ok("Story C")>>,
    replicate |-> <<[ok |-> FALSE, form |-> "", n |-> 0, val |-> "Request failed"]>>,
    discover |-> <<d>>, image |-> i] :
     d \in {[form |-> "throw"],
            [form |-> "json", hasModels |-> TRUE, isArray |-> TRUE,
             names |-> <<"models/Imagen-3.0-generate-001">>]},
     i \in Scripts({[form |-> "status", status |-> "404", text |-> "{}"],
                    [form |-> "status", status |-> "429", text |-> "quota exceeded"],
                    [form |-> "json",
                     data |-> Data(<<Part("QUJD", "image/jpeg")>>, <<>>)]})}

\* the MongoDB connection is lost
Outage ==
  /\ dbUp /\ proc[1].pc = "done"
  /\ dbUp' = FALSE
  /\ UNCHANGED <<env, replicate, cache, oracle, proc>>

Repeat ==
  /\ ~dbUp
  /\ \/ StartGenerateOf(2, GenerateKinds, {proc[1].body})
     \/ Lookup(2)
     \/ GeminiResponse(2)
     \/ GeminiRetryDelay(2)
     \/ GeminiRetryResponse(2)
     \/ FallbackDelay(2)
     \/ OpenAIResponse(2)
     \/ OpenAIRetryDelay(2)
     \/ ReplicateResponse(2)
     \/ DiscoverResponse(2)
     \/ ImageResponse(2)
     \/ Save(2)

InitPair ==
  /\ env = [GEMINI_API_KEY |-> "AIza-1", OPENAI_API_KEY |-> "sk-1",
            REPLICATE_API_TOKEN |-> "r8-1"]
  /\ replicate = ""
  /\ dbUp = TRUE
  /\ cache \in Caches
  /\ oracle \in ScriptedOracles
  /\ proc = [p \in Procs |-> Idle]

NextPair == Step(1) \/ Outage \/ Repeat

SpecPair == InitPair /\ [][NextPair]_vars

(***************************************************************************)
(* Specification of the server under load: two requests at a time, each    *)
(* followed by the next one, interleaved at every await, with documents    *)
(* expiring.                                                               *)
(***************************************************************************)
ConcOracle ==
  [scripted |-> FALSE,
   gemini |-> {Ok("Story A"), Fail("[429 Too Many Requests]")},
   openai |-> {Ok("Story C"), Fail("429 status code (no body)")},
   replicate |-> {[ok |-> TRUE, form |-> "string", n |-> 1,
                   val |-> "https://replicate.delivery/a.png"]},
   discover |-> {[form |-> "json", hasModels |-> TRUE, isArray |-> TRUE,
                  names |-> <<"models/Imagen-3.0-generate-001">>]},
   image |-> {[form |-> "status", status |-> "404", text |-> "{}"],
              [form |-> "json", data |-> Data(<<Part("QUJD", "image/jpeg")>>, <<>>)]}]

ConcBodies ==
  {Body(TRUE, "Luke Skywalker", TRUE, "https://x/people/1/"),
   Body(TRUE, "Leia Organa", FALSE, "")}

\* the request has been answered; the next one arrives
Reset(p) ==
  /\ proc[p].pc = "done"
  /\ proc' = [proc EXCEPT ![p] = Idle]
  /\ UNCHANGED <<env, replicate, dbUp, cache, oracle>>

InitConc ==
  /\ env = [GEMINI_API_KEY |-> "AIza-1", OPENAI_API_KEY |-> "sk-1",
            REPLICATE_API_TOKEN |-> "r8-1"]
  /\ replicate = ""
  /\ dbUp = TRUE
  /\ cache = [image |-> {}, story |-> {}]
  /\ oracle = ConcOracle
  /\ proc = [p \in Procs |-> Idle]

StepConc(p) ==
  \/ StartGenerateOf(p, {"image", "story"}, ConcBodies)
  \/ Lookup(p)
  \/ GeminiResponse(p)
  \/ GeminiRetryDelay(p)
  \/ GeminiRetryResponse(p)
  \/ FallbackDelay(p)
  \/ OpenAIResponse(p)
  \/ OpenAIRetryDelay(p)
  \/ DiscoverResponse(p)
  \/ ImageResponse(p)
  \/ Save(p)
  \/ StartGetOf(p, {"1"})
  \/ GetLookup(p)
  \/ Reset(p)

NextConc == (\E p \in Procs : StepConc(p)) \/ Expire

SpecConc == InitConc /\ [][NextConc]_vars

(***************************************************************************)
(* Specification of calls for one character that follow one another: two   *)
(* request slots serve story generate calls and getCached calls for id     *)
(* "1", interleaved at every await; the store stays available and no       *)
(* document expires.  Each slot remembers, from the arrival of its call     *)
(* on, the generated answers that had been given by then (`after`).        *)
(***************************************************************************)
RaceOracle == [ConcOracle EXCEPT !.gemini = {Ok("Story A"), Ok("Story C")}]

RaceBodies == {Body(TRUE, "Luke Skywalker", TRUE, "https://x/people/1/")}

\* the generated (not cached) answers the slots hold
GeneratedAnswers ==
  {[coll |-> Collection(proc[q].kind), characterId |-> proc[q].characterId,
    artifact |-> proc[q].response.artifact] :
     q \in {q \in Procs : /\ proc[q].pc = "done"
                          /\ proc[q].kind \in {"image", "story"}
                          /\ proc[q].response.status = 200
                          /\ ~proc[q].response.cached}}

\* the request has been answered; the next call arrives on the slot, after
\* every answer given so far
ResetRace(p) ==
  /\ proc[p].pc = "done"
  /\ proc' = [proc EXCEPT ![p] =
                Idle @@ [after |-> proc[p].after \cup GeneratedAnswers]]
  /\ UNCHANGED <<env, replicate, dbUp, cache, oracle>>

InitRace ==
  /\ env = [GEMINI_API_KEY |-> "AIza-1", OPENAI_API_KEY |-> "sk-1",
            REPLICATE_API_TOKEN |-> "r8-1"]
  /\ replicate = ""
  /\ dbUp = TRUE
  /\ cache = [image |-> {}, story |-> {}]
  /\ oracle = RaceOracle
  /\ proc = [p \in Procs |-> Idle @@ [after |-> {}]]

StepRace(p) ==
  \/ StartGenerateOf(p, {"story"}, RaceBodies)
  \/ Lookup(p)
  \/ GeminiResponse(p)
  \/ Save(p)
  \/ StartGetOf(p, {"1"})
  \/ GetLookup(p)
  \/ ResetRace(p)

NextRace == \E p \in Procs : StepRace(p)

SpecRace == InitRace /\ [][NextRace]_vars

(***************************************************************************)
(* Specification of a server whose credentials change while it runs:       *)
(* sketch requests follow one another on one slot and process.env is       *)
(* reassigned at any moment (every service reads it at the call).          *)
(***************************************************************************)
KeysOracle ==
  [ConcOracle EXCEPT !.gemini = {Ok("Sketch prompt A")},
                     !.openai = {Ok("Sketch prompt C")}]

KeyEnvironments ==
  [REPLICATE_API_TOKEN : {"", "r8-1", "r8-2"}, OPENAI_API_KEY : {"", "sk-1"},
   GEMINI_API_KEY : {"", "AIza-1"}]

\* an assignment to process.env
SetEnv ==
  /\ env' \in KeyEnvironments \ {env}
  /\ UNCHANGED <<replicate, dbUp, cache, oracle, proc>>

InitKeys ==
  /\ env \in KeyEnvironments
  /\ replicate = ""
  /\ dbUp = TRUE
  /\ cache = [image |-> {}, story |-> {}]
  /\ oracle = KeysOracle
  /\ proc = [p \in Procs |-> Idle]

NextKeys ==
  \/ StartGenerateOf(1, {"sketch"}, RaceBodies)
  \/ GeminiResponse(1)
  \/ OpenAIResponse(1)
  \/ ReplicateResponse(1)
  \/ Reset(1)
  \/ SetEnv

SpecKeys == InitKeys /\ [][NextKeys]_vars

(***************************************************************************)
(* The two-endpoint image generator (geminiService.ts, the Imagen          *)
(* version): GeminiService.generateCharacterImage posts the prompt to the  *)
(* imagen-3.0 endpoint and, on a status that is not OK, to the imagen-4.0  *)
(* endpoint.  A call to the method is a request of kind "imagen"; its      *)
(* response is the value the method returns (200) or the error it throws   *)
(* (500, as the route's catch block reports it).                           *)
(***************************************************************************)
ImagenPrimary == "imagen-3.0-generate-001"
ImagenAlternative == "imagen-4.0-generate-001"

InvalidJsonResponse == "Invalid JSON response from API"
InvalidResponseFormat ==
  "Invalid response format from Gemini API. Check logs for actual response."
AlternativeInvalidFormat == "Alternative endpoint returned invalid format"

\* a parsed body: the arrays the parsers look at ("" for an absent field)
ImagenData(generatedImages, predictions, images) ==
  [generatedImages |-> generatedImages, predictions |-> predictions,
   images |-> images]

ImagenImage(base64, imageBase64) == [base64 |-> base64, imageBase64 |-> imageBase64]

\* a || b || c on strings
FirstTruthy(a, b, c) == IF a # "" THEN a ELSE IF b # "" THEN b ELSE c

\* the shape tests of generateCharacterImage; "" when none matches
ParsePrimary(data) ==
  LET g == IF data.generatedImages = <<>> THEN ""
           ELSE FirstTruthy(data.generatedImages[1].imageBase64,
                            data.generatedImages[1].bytesBase64Encoded,
                            data.generatedImages[1].bytes)
      q == IF data.predictions = <<>> THEN ""
           ELSE FirstTruthy(data.predictions[1].bytesBase64Encoded,
                            data.predictions[1].imageBase64,
                            data.predictions[1].bytes)
      i == IF data.images = <<>> THEN ""
           ELSE FirstTruthy(data.images[1].base64, data.images[1].imageBase64, "")
  IN  IF FirstTruthy(g, q, i) = "" THEN ""
      ELSE "data:image/png;base64," \o FirstTruthy(g, q, i)

\* the shape test of tryAlternativeEndpoint; "" when it does not match
ParseAlternative(data) ==
  LET g == IF data.generatedImages = <<>> THEN ""
           ELSE FirstTruthy(data.generatedImages[1].imageBase64,
                            data.generatedImages[1].bytesBase64Encoded, "")
  IN  IF g = "" THEN "" ELSE "data:image/png;base64," \o g

\* the error the catch block of tryAlternativeEndpoint throws
AlternativeError(message) ==
  "Image generation failed. Please check: [...] Error: " \o message

\* tryAlternativeEndpoint up to its await of fetch (getApiKey throws inside
\* the try when the key is unset)
tryAlternativeEndpoint(r) ==
  IF env.GEMINI_API_KEY = ""
  THEN ThrowToRoute(r, AlternativeError(MissingGeminiKey))
  ELSE [r EXCEPT !.pc = "alternative_wait",
                 !.events = Append(@, InvokeEvent("gemini", ImagenAlternative,
                                                  env.GEMINI_API_KEY))]

\* what an answer of the primary endpoint amounts to: an image or an error
PrimaryOutcome(reply) ==
  LET uri == IF reply.form = "json" THEN ParsePrimary(reply.data) ELSE ""
  IN  [ok |-> uri # "",
       val |-> CASE uri # "" -> uri
                 [] reply.form = "throw" -> reply.message
                 [] reply.form = "status" -> reply.text
                 [] reply.form = "text" -> InvalidJsonResponse
                 [] OTHER -> InvalidResponseFormat]

\* generateCharacterImage after the awaits of fetch and response.text()
PrimaryReplied(r, reply) ==
  CASE reply.form = "throw" -> ThrowToRoute(r, reply.message)
    [] reply.form = "status" -> tryAlternativeEndpoint(r)
    [] reply.form = "text" -> ThrowToRoute(r, InvalidJsonResponse)
    [] OTHER ->
         IF ParsePrimary(reply.data) # ""
         THEN Respond(r, GenerateOk(ParsePrimary(reply.data), FALSE, r.body.name))
         ELSE ThrowToRoute(r, InvalidResponseFormat)

\* what an answer of the alternative endpoint amounts to
AlternativeOutcome(reply) ==
  LET uri == IF reply.form = "json" THEN ParseAlternative(reply.data) ELSE ""
  IN  [ok |-> uri # "",
       val |-> CASE uri # "" -> uri
                 [] reply.form = "throw" -> reply.message
                 [] reply.form = "status" ->
                      "Image generation failed on both endpoints. Status: "
                        \o reply.status \o ". Error: " \o reply.text
                 [] reply.form = "text" -> "Unexpected token in JSON at position 0"
                 [] OTHER -> AlternativeInvalidFormat]

\* tryAlternativeEndpoint after the awaits of fetch and response.json()
AlternativeReplied(r, reply) ==
  IF AlternativeOutcome(reply).ok
  THEN Respond(r, GenerateOk(AlternativeOutcome(reply).val, FALSE, r.body.name))
  ELSE ThrowToRoute(r, AlternativeError(AlternativeOutcome(reply).val))

\* a call of generateCharacterImage up to its await of fetch (getApiKey
\* throws when the key is unset)
StartImagen(p) ==
  /\ proc[p].pc = "idle"
  /\ \E body \in ConcBodies :
       LET r == [proc[p] EXCEPT !.kind = "imagen", !.body = body]
       IN  Commit(p,
             IF env.GEMINI_API_KEY = ""
             THEN ThrowToRoute(r, MissingGeminiKey)
             ELSE [r EXCEPT !.pc = "imagen_wait",
                            !.events = Append(@, InvokeEvent("gemini", ImagenPrimary,
                                                             env.GEMINI_API_KEY))])
  /\ UNCHANGED <<env, dbUp, cache, oracle>>

PrimaryResponse(p) ==
  LET r == proc[p]
  IN  /\ r.pc = "imagen_wait"
      /\ \E reply \in Answers(r, "image") :
           Commit(p, PrimaryReplied([r EXCEPT !.events =
                                       Answered(@, PrimaryOutcome(reply))], reply))
      /\ UNCHANGED <<env, dbUp, cache, oracle>>

AlternativeResponse(p) ==
  LET r == proc[p]
  IN  /\ r.pc = "alternative_wait"
      /\ \E reply \in Answers(r, "image") :
           Commit(p, AlternativeReplied([r EXCEPT !.events =
                                           Answered(@, AlternativeOutcome(reply))],
                                        reply))
      /\ UNCHANGED <<env, dbUp, cache, oracle>>

\* what the two endpoints can answer
ImagenReplies ==
  {[form |-> "throw", message |-> "fetch failed"],
   [form |-> "status", status |-> "404", text |-> "{}"],
   [form |-> "text"],
   [form |-> "json", data |-> ImagenData(<<>>, <<>>, <<>>)],
   [form |-> "json", data |-> ImagenData(<<Generated("SU1H", "", "")>>, <<>>, <<>>)],
   [form |-> "json", data |-> ImagenData(<<Generated("", "", "QllU")>>, <<>>, <<>>)],
   [form |-> "json", data |-> ImagenData(<<>>, <<Generated("", "REVG", "")>>, <<>>)],
   [form |-> "json", data |-> ImagenData(<<>>, <<>>, <<ImagenImage("QjY0", "")>>)]}

ImagenOracle == [ConcOracle EXCEPT !.image = ImagenReplies]

InitImagen ==
  /\ env \in {[GEMINI_API_KEY |-> k, OPENAI_API_KEY |-> "sk-1",
               REPLICATE_API_TOKEN |-> "r8-1"] : k \in {"", "AIza-1"}}
  /\ replicate = ""
  /\ dbUp = TRUE
  /\ cache = [image |-> {}, story |-> {}]
  /\ oracle = ImagenOracle
  /\ proc = [p \in Procs |-> Idle]

StepImagen(p) ==
  \/ StartImagen(p)
  \/ PrimaryResponse(p)
  \/ AlternativeResponse(p)

NextImagen == \E p \in Procs : StepImagen(p)

SpecImagen == InitImagen /\ [][NextImagen]_vars

(***************************************************************************)
(* Specification of extractIdFromUrl as a function of any string: slot 1   *)
(* applies it to a string of at most MaxStrLen characters over digits, '/' *)
(* and a letter, bare or after "https://x/people/"; slot 2 applies it to a *)
(* url of another resource.                                                *)
(***************************************************************************)
UrlInputs ==
  {prefix \o t : prefix \in {"", "https://x/people/"},
                 t \in Strings({"1", "2", "/", "a"}, MaxStrLen)}

OtherUrlInputs ==
  {"https://x/planets/" \o t : t \in {"", "1", "1/", "2/", "12", "12/", "1//", "/"}}

\* a call of extractIdFromUrl(url)
Extract(p) ==
  /\ proc[p].pc = "idle"
  /\ \E url \in IF p = 1 THEN UrlInputs ELSE OtherUrlInputs :
       Commit(p, [proc[p] EXCEPT !.pc = "done", !.kind = "extract",
                                 !.body = Body(TRUE, "", TRUE, url),
                                 !.characterId = extractIdFromUrl(url)])
  /\ UNCHANGED <<env, dbUp, cache, oracle>>

InitUrl ==
  /\ env = [GEMINI_API_KEY |-> "AIza-1", OPENAI_API_KEY |-> "sk-1",
            REPLICATE_API_TOKEN |-> "r8-1"]
  /\ replicate = ""
  /\ dbUp = TRUE
  /\ cache = [image |-> {}, story |-> {}]
  /\ oracle = FullOracle
  /\ proc = [p \in Procs |-> Idle]

NextUrl == \E p \in Procs : Extract(p)

SpecUrl == InitUrl /\ [][NextUrl]_vars

(***************************************************************************)
(* Properties.                                                             *)
(***************************************************************************)
TextKinds == {"story", "sketch"}

Invokes(e, family) ==
  {k \in 1..Len(e) : e[k].type = "invoke" /\ e[k].family = family}

Delays(e) == {k \in 1..Len(e) : e[k].type = "delay"}

\* event k is an answered invocation of `family` that failed
FailedInvoke(e, k, family) ==
  /\ k <= Len(e)
  /\ e[k].type = "invoke" /\ e[k].family = family
  /\ ~e[k].pending /\ ~e[k].out.ok

\* event k is an answered invocation of `family` that delivered text
SucceededInvoke(e, k, family) ==
  /\ k <= Len(e)
  /\ e[k].type = "invoke" /\ e[k].family = family
  /\ ~e[k].pending /\ e[k].out.ok /\ e[k].out.val # ""

\* C1: in a story or sketch-prompt request whose first Gemini invocation
\* succeeds, OpenAI is never invoked and no delay is taken.
C1_FirstSuccessNoFallback ==
  \A p \in Procs :
    LET r == proc[p] IN
      (r.kind \in TextKinds /\ Len(r.events) >= 1
         /\ r.events[1].family = "gemini" /\ ~r.events[1].pending
         /\ r.events[1].out.ok)
      => /\ Invokes(r.events, "openai") = {}
         /\ Delays(r.events) = {}
         /\ Invokes(r.events, "gemini") = {1}

C1_Witness ==
  \E p \in Procs :
    LET r == proc[p] IN
      /\ r.kind = "story" /\ r.pc = "done" /\ r.response.status = 200
      /\ Len(r.events) = 1
      /\ r.events[1].family = "gemini" /\ r.events[1].out.ok
      /\ r.response.artifact = "Story B"

\* C2: within one call no model of either family is invoked more than
\* twice, and a second invocation of a model directly follows a quota-type
\* failure of its first invocation and one delay.
C2_AtMostOneRetry ==
  \A p \in Procs :
    LET e == proc[p].events IN
      \A k \in 1..Len(e) :
        e[k].type = "invoke" =>
          LET same == {j \in 1..Len(e) : e[j].type = "invoke"
                         /\ e[j].family = e[k].family /\ e[j].model = e[k].model}
          IN  /\ Cardinality(same) <= 2
              /\ \A j \in same :
                   j < k => /\ k = j + 2
                            /\ e[j + 1].type = "delay"
                            /\ ~e[j].out.ok
                            /\ \/ IsGeminiQuotaError(e[j].out.val)
                               \/ IsOpenAIRetryable(e[j].out.val)

C2_Witness ==
  \E p \in Procs :
    LET e == proc[p].events IN
      /\ proc[p].pc = "done"
      /\ Len(e) = 7
      /\ FailedInvoke(e, 1, "gemini") /\ FailedInvoke(e, 3, "gemini")
      /\ IsGeminiQuotaError(e[3].out.val)
      /\ FailedInvoke(e, 5, "openai") /\ FailedInvoke(e, 7, "openai")
      /\ IsOpenAIRetryable(e[7].out.val)

\* C3: when the only Gemini candidate answers 429 to the first invocation
\* and to the retry, the events are: invocation, 5 s delay, retry, 3 s
\* delay, OpenAI invocation; and when that OpenAI invocation delivers text,
\* the text (trimmed) is what the call returns: the story route goes on to
\* save it and to answer with it.
C3_Gemini429Twice(e) ==
  /\ FailedInvoke(e, 1, "gemini") /\ Includes(e[1].out.val, "429")
  /\ FailedInvoke(e, 3, "gemini") /\ Includes(e[3].out.val, "429")

C3_QuotaThenFallback ==
  \A p \in Procs :
    LET r == proc[p]
        e == r.events
    IN  (r.kind \in TextKinds /\ C3_Gemini429Twice(e))
        => /\ e[2] = DelayEvent(GeminiRetryDelayMs)
           /\ e[3].model = e[1].model
           /\ Len(e) >= 4 /\ e[4] = DelayEvent(FallbackDelayMs)
           /\ Invokes(e, "gemini") = {1, 3}
           /\ Len(e) >= 5 => (e[5].type = "invoke" /\ e[5].family = "openai"
                                /\ e[5].model = OpenAIModel)
           /\ SucceededInvoke(e, 5, "openai")
                => /\ r.text = Trim(e[5].out.val)
                   /\ Invokes(e, "openai") = {5} /\ Delays(e) = {2, 4}
                   /\ r.kind = "story"
                        => /\ Len(e) = 5
                           /\ r.pc \in {"save", "done"}
                           /\ r.pc = "done"
                                => r.response =
                                     [status |-> 200, success |-> TRUE,
                                      artifact |-> Trim(e[5].out.val),
                                      cached |-> FALSE,
                                      characterName |-> r.body.name]

C3_Witness ==
  \E p \in Procs :
    LET r == proc[p] IN
      /\ r.kind = "story" /\ r.pc = "done" /\ C3_Gemini429Twice(r.events)
      /\ SucceededInvoke(r.events, 5, "openai")
      /\ r.response.status = 200 /\ r.response.artifact = "Story D"

\* the request ended with a generated (not cached) artifact
Delivered(r) ==
  /\ r.pc = "done" /\ r.kind \in {"image", "story", "sketch"}
  /\ r.response.status = 200 /\ r.events # <<>>

\* the family whose invocation produced the text of a story or sketch prompt
ProducedByFallback(r) ==
  \E k \in Invokes(r.events, "openai") : SucceededInvoke(r.events, k, "openai")

LastOpenAIError(r) ==
  LET e == r.events IN
    IF e # <<>> /\ e[Len(e)].family = "openai" /\ ~e[Len(e)].pending
         /\ ~e[Len(e)].out.ok
    THEN e[Len(e)].out.val
    ELSE ""

BothExhausted(r) ==
  /\ r.pc = "done" /\ r.kind \in TextKinds /\ r.response.status = 500
  /\ LastOpenAIError(r) # ""
  /\ ~r.lastError.isNull

\* C5: when both families are exhausted and the recorded Gemini error and
\* the OpenAI error are both quota-type, the error returned carries the
\* wait-and-retry hint and not the generic "with both Gemini and OpenAI"
\* message.
C5_BothQuotaHint ==
  \A p \in Procs :
    LET r == proc[p] IN
      (BothExhausted(r) /\ IsGeminiQuotaError(r.lastError.message)
         /\ IsOpenAIRetryable(LastOpenAIError(r)))
      => /\ Includes(r.response.error, "quota limits exceeded")
         /\ Includes(r.response.error, "wait")
         /\ Includes(r.response.error, "before trying again")
         /\ ~Includes(r.response.error, "with both Gemini and OpenAI")

C5_Witness ==
  \E p \in Procs :
    LET r == proc[p] IN
      /\ BothExhausted(r) /\ IsGeminiQuotaError(r.lastError.message)
      /\ LastOpenAIError(r) = "429 status code (no body)"
      /\ r.response.error = BothQuota

\* model discovery failed: transport failure, non-OK status, unparseable body
DiscoveryFailed(reply) == reply.form \in {"throw", "status", "text"}

\* an image request that has entered generateCharacterImage and is past the
\* await of model discovery
ImageGenerationStarted(r) ==
  /\ r.kind = "image" /\ r.pc \notin {"idle", "lookup", "discover_wait"}
  /\ r.pc = "done" => (r.events # <<>> \/ r.response.status = 500)

\* C6 as claimed: in an image request, whenever model discovery fails for
\* any reason, a missing credential included, candidate resolution does
\* not throw and yields the static default list in its fixed order.
C6_AnyDiscoveryFailureGivesDefaults ==
  \A p \in Procs :
    LET r == proc[p] IN
      (ImageGenerationStarted(r)
         /\ (DiscoveryFailed(r.discovery) \/ env.GEMINI_API_KEY = ""))
      => r.modelsToTry =
           <<"gemini-3-pro-image-preview", "gemini-2.5-flash-exp",
             "gemini-2.0-flash-exp", "gemini-1.5-flash-latest",
             "gemini-1.5-pro-latest">>

\* C6 as amended: with the Gemini credential set, whenever model discovery
\* fails (transport failure, non-OK status, unparseable body), candidate
\* resolution does not throw and yields the static default list in its
\* fixed order, so the request goes on to invoke the first default model;
\* with the credential missing, the request fails with the missing-key
\* error before discovery and resolution, and no candidate list is built.
C6_DiscoveryFailureGivesDefaults ==
  \A p \in Procs :
    LET r == proc[p] IN
      /\ (r.kind = "image" /\ DiscoveryFailed(r.discovery))
         => /\ r.modelsToTry =
                 <<"gemini-3-pro-image-preview", "gemini-2.5-flash-exp",
                   "gemini-2.0-flash-exp", "gemini-1.5-flash-latest",
                   "gemini-1.5-pro-latest">>
            /\ Len(r.events) >= 2
            /\ r.events[2].type = "invoke"
            /\ r.events[2].model = "gemini-3-pro-image-preview"
      /\ (ImageGenerationStarted(r) /\ env.GEMINI_API_KEY = "")
         => /\ r.pc = "done"
            /\ r.response = [status |-> 500, success |-> FALSE,
                             error |-> "GEMINI_API_KEY is not set in environment variables"]
            /\ r.modelsToTry = <<>> /\ r.events = <<>>

C6_Witness ==
  \E p \in Procs :
    LET r == proc[p] IN
      /\ r.kind = "image" /\ r.discovery.form = "throw"
      /\ r.pc = "image_wait" /\ r.idx = 5
      /\ r.events[Len(r.events)].model = "gemini-1.5-pro-latest"


GetKinds == {"getImage", "getStory"}

\* C9 as claimed: getCached invokes no provider and inserts or changes no
\* cache record, for every id and cache state; it answers with the stored
\* record when the store holds one for the id and with NotFound otherwise
\* (an unavailable store counts as holding none).
C9_GetReadOnlyRecordIffExists ==
  [][\A p \in Procs :
       (proc'[p] # proc[p] /\ proc'[p].kind \in GetKinds)
       => /\ cache' = cache /\ proc'[p].events = <<>>
          /\ proc'[p].pc = "done"
             => LET r == proc'[p]
                    hit == {d \in cache[Collection(r.kind)] :
                              d.characterId = r.characterId}
                IN  IF dbUp /\ hit # {}
                    THEN \E d \in hit :
                           /\ r.response.status = 200
                           /\ r.response.artifact = d.artifact
                    ELSE r.response.status = 404]_vars

\* C9 as amended: getCached invokes no provider and inserts or changes no
\* cache record, for every id and cache state; it answers with the stored
\* record when the store holds one for the id (an unavailable store counts
\* as holding none) and the id is not the literal "generate", and with
\* NotFound (404) otherwise: also when a record with the id "generate" is
\* stored.
C9_GetReadOnly ==
  [][\A p \in Procs :
       (proc'[p] # proc[p] /\ proc'[p].kind \in GetKinds)
       => /\ cache' = cache /\ proc'[p].events = <<>>
          /\ env' = env /\ replicate' = replicate /\ dbUp' = dbUp
          /\ proc'[p].pc = "done"
             => LET r == proc'[p]
                    hit == {d \in cache[Collection(r.kind)] :
                              d.characterId = r.characterId}
                IN  IF dbUp /\ r.characterId # "generate" /\ hit # {}
                    THEN \E d \in hit :
                           r.response = [status |-> 200, success |-> TRUE,
                                         artifact |-> d.artifact, cached |-> TRUE,
                                         characterName |-> d.characterName]
                    ELSE /\ r.response.status = 404
                         /\ ~r.response.success]_vars

C9_Witness ==
  \E p \in Procs :
    LET r == proc[p] IN
      /\ r.kind = "getImage" /\ r.pc = "done" /\ r.characterId = "generate"
      /\ r.response.status = 404
      /\ \E d \in cache.image : d.characterId = "generate"


\* the digits of the url's last '/'-separated segment, one trailing slash
\* set aside ("" when that segment is not a non-empty digit string)
TrailingNumericSegment(url) ==
  LET n == Len(url)
      e == IF n >= 1 /\ CharAt(url, n) = "/" THEN n - 1 ELSE n
      starts == {i \in 2..e : \A m \in i..e : CharAt(url, m) \in Digits}
  IN  IF starts = {} THEN ""
      ELSE IF CharAt(url, Min(starts) - 1) = "/" THEN SubSeq(url, Min(starts), e)
      ELSE ""

\* the name from position k on, lower-cased, with a hyphen for the first
\* character of every run of whitespace and nothing for the others
RECURSIVE NormalisedName(_, _)
NormalisedName(name, k) ==
  IF k > Len(name) THEN ""
  ELSE (IF CharAt(name, k) \notin Whitespace THEN LowerChar(CharAt(name, k))
        ELSE IF k = 1 \/ CharAt(name, k - 1) \notin Whitespace THEN "-"
        ELSE "")
       \o NormalisedName(name, k + 1)

\* C8: the cache key of a generate request is the trailing numeric segment
\* of its url (with or without a trailing slash) when a url with such a
\* segment is present, and the lower-cased name with every run of
\* whitespace replaced by one hyphen when no url is present; Luke
\* Skywalker with https://x/people/1/ gets "1", Leia Organa "leia-organa".
C8_KeyDerivation ==
  \A p \in Procs :
    LET r == proc[p] IN
      r.pc = "lookup"
      => /\ (r.body.hasUrl /\ TrailingNumericSegment(r.body.url) # "")
              => r.characterId = TrailingNumericSegment(r.body.url)
         /\ ~r.body.hasUrl => r.characterId = NormalisedName(r.body.name, 1)
         /\ r.body = [wellTyped |-> TRUE, name |-> "Luke Skywalker",
                      hasUrl |-> TRUE, url |-> "https://x/people/1/"]
              => r.characterId = "1"
         /\ r.body = [wellTyped |-> TRUE, name |-> "Leia Organa",
                      hasUrl |-> FALSE, url |-> ""]
              => r.characterId = "leia-organa"

C8_Witness ==
  \E p \in Procs :
    LET r == proc[p] IN
      /\ r.pc = "lookup" /\ r.kind = "image"
      /\ \/ r.body.url = "https://x/people/12/" /\ r.characterId = "12"
         \/ r.body.name = "L \t" /\ ~r.body.hasUrl /\ r.characterId = "l-"


\* request 1 was served with the store available and holding no record
\* for its id, request 2 is the same request served with the store
\* unavailable
C7_SameRequestStoreLost(a, b) ==
  /\ a.pc = "done" /\ b.pc = "done" /\ ~dbUp
  /\ a.kind \in {"image", "story"} /\ b.kind = a.kind /\ b.body = a.body
  /\ ~(a.response.status = 200 /\ a.response.cached)

\* C7: for the same request and the same provider responses, a generate
\* call served with the store unavailable sends the same response (same
\* status, same artifact or error) after the same provider invocations as
\* one served with an available store holding no record for the id; the
\* available store holds the generated record afterwards.
C7_StoreAbsenceSameOutcome ==
  LET a == proc[1]
      b == proc[2]
  IN  C7_SameRequestStoreLost(a, b)
      => /\ b.response = a.response
         /\ b.events = a.events
         /\ (a.response.status = 200 /\ a.text # "" /\ a.body.name # "")
            => \E d \in cache[Collection(a.kind)] :
                 d.characterId = a.characterId /\ d.artifact = a.response.artifact

C7_Witness ==
  LET a == proc[1]
      b == proc[2]
  IN  /\ C7_SameRequestStoreLost(a, b)
      /\ a.kind = "image" /\ b.response.status = 200
      /\ b.response.artifact = "data:image/jpeg;base64,QUJD"
      /\ Len(b.events) = 3


C10_OneRecordPerId ==
  \A coll \in {"image", "story"} : \A d, e \in cache[coll] :
    d.characterId = e.characterId => d = e

\* C10: under every interleaving of generate and getCached requests, each
\* collection holds at most one record per characterId, and no step
\* leaves a record for an id with another artifact than the record that
\* was there for the id before the step (two concurrent generate requests
\* for one id that both miss the cache and both generate included).
C10_OneRecordNeverReplaced ==
  /\ []C10_OneRecordPerId
  /\ [][\A coll \in {"image", "story"} :
          \A d \in cache[coll] : \A e \in cache'[coll] :
            e.characterId = d.characterId => e.artifact = d.artifact]_vars

C10_Witness ==
  /\ \A p \in Procs :
       /\ proc[p].kind = "story" /\ proc[p].pc = "done"
       /\ proc[p].characterId = "1"
       /\ proc[p].response.status = 200 /\ ~proc[p].response.cached
  /\ proc[1].response.artifact = "Story A"
  /\ proc[2].response.artifact = "Story C"
  /\ cache.story = {[characterName |-> "Luke Skywalker", characterId |-> "1",
                     artifact |-> "Story C"]}


\* a body the route's schema rejects: a field of the wrong type or missing,
\* a url without a scheme (image, story), an empty name (sketch)
C11_Malformed(kind, body) ==
  \/ ~body.wellTyped
  \/ kind = "sketch" /\ body.name = ""
  \/ kind \in {"image", "story"} /\ body.hasUrl
       /\ \A k \in 1..Len(body.url) : SubSeq(body.url, k, k) # ":"

\* C11: a generate request whose body fails validation is answered with
\* HTTP 400 in the step that takes it up: no provider is invoked, no
\* model discovery made, no cache lookup awaited and no record inserted.
C11_InvalidInputFailsFast ==
  [][\A p \in Procs :
       (proc'[p] # proc[p] /\ proc'[p].kind \in {"image", "story", "sketch"}
          /\ C11_Malformed(proc'[p].kind, proc'[p].body))
       => /\ proc[p].pc = "idle" /\ proc'[p].pc = "done"
          /\ proc'[p].response.status = 400
          /\ ~proc'[p].response.success
          /\ proc'[p].events = <<>>
          /\ proc'[p].characterId = ""
          /\ cache' = cache]_vars

C11_Witness ==
  \E p \in Procs :
    LET r == proc[p] IN
      /\ r.kind = "image" /\ r.body.url = "people/1" /\ r.body.hasUrl
      /\ r.pc = "done" /\ r.response = [status |-> 400, success |-> FALSE,
                                        error |-> "Invalid character data"]


\* the places of model m in the candidate list
C12_Places(list, m) == {i \in 1..Len(list) : list[i] = m}

\* C12: within one generate call at most one outbound call is in flight
\* (it is the last event of the log); the Gemini candidates are invoked in
\* the order of the candidate list, and none is invoked again once a
\* later one has been; OpenAI is invoked only when no Gemini invocation
\* has succeeded and every candidate has failed: by a failed invocation,
\* or with the credential unset, where the attempt fails before its call.
C12_SequentialOrdered ==
  \A p \in Procs :
    LET r == proc[p]
        e == r.events
        G == Invokes(e, "gemini")
    IN  r.kind \in {"image", "story", "sketch"}
        => /\ \A k \in 1..Len(e) : e[k].pending => k = Len(e)
           /\ \A j \in G : \A k \in G :
                j < k => /\ C12_Places(r.modelsToTry, e[j].model) # {}
                         /\ C12_Places(r.modelsToTry, e[k].model) # {}
                         /\ Min(C12_Places(r.modelsToTry, e[j].model))
                              <= Min(C12_Places(r.modelsToTry, e[k].model))
           /\ \A k \in Invokes(e, "openai") :
                /\ \A j \in G : j < k /\ ~e[j].pending /\ ~e[j].out.ok
                /\ \A i \in 1..Len(r.modelsToTry) :
                     \/ \E j \in G : j < k /\ e[j].model = r.modelsToTry[i]
                     \/ env.GEMINI_API_KEY = ""
                          /\ r.lastError.message =
                               "GEMINI_API_KEY is not set in environment variables"

C12_Witness ==
  \E p \in Procs :
    LET r == proc[p]
        e == r.events
    IN  /\ r.kind = "image" /\ Len(e) = 6 /\ e[6].pending
        /\ \A i \in 1..5 : e[i + 1].model = defaultModelsToTry[i]


\* event k is the first invocation of its model and failed quota-type
C13_TransientFirst(e, k) ==
  /\ FailedInvoke(e, k, "gemini") /\ IsGeminiQuotaError(e[k].out.val)
  /\ \A j \in 1..(k - 1) : ~(e[j].type = "invoke" /\ e[j].model = e[k].model)

\* in a story or sketch-prompt request, a quota-type failure of the first
\* invocation of a Gemini model is followed by a 5 s delay, then by one
\* more invocation of that model, and by no third one
C13_TextRetry(r) ==
  LET e == r.events IN
    \A k \in 1..Len(e) :
      C13_TransientFirst(e, k)
      => /\ Len(e) >= k + 1 /\ e[k + 1] = DelayEvent(GeminiRetryDelayMs)
         /\ Len(e) >= k + 2
              => /\ e[k + 2].type = "invoke" /\ e[k + 2].family = "gemini"
                 /\ e[k + 2].model = e[k].model
         /\ \A j \in (k + 3)..Len(e) :
              ~(e[j].type = "invoke" /\ e[j].model = e[k].model)
         /\ r.pc = "gemini_delay" <=> Len(e) = k + 1

\* C13 as claimed: for every request kind, image included, a quota-type
\* failure of a Gemini model is followed by a wait of 5 s and one
\* re-invocation of the same model.
C13_TransientRetriedEveryKind ==
  \A p \in Procs :
    LET r == proc[p] IN
      /\ r.kind \in TextKinds => C13_TextRetry(r)
      /\ (r.kind = "image" /\ ~r.lastError.isNull
            /\ IsGeminiQuotaError(r.lastError.message))
         => \E k \in Delays(r.events) : r.events[k].ms = GeminiRetryDelayMs

\* C13 as amended: for story and sketch-prompt requests, a quota-type
\* failure of a Gemini model is followed by a wait of 5 s and then exactly
\* one re-invocation of the same model before anything else is invoked,
\* and a failed retry moves on; an image request never waits and never
\* re-invokes a model: a 429 of a candidate is recorded as the last error
\* and the next candidate is invoked at once.
C13_TransientRetriedTextOnly ==
  \A p \in Procs :
    LET r == proc[p]
        e == r.events
    IN  /\ r.kind \in TextKinds => C13_TextRetry(r)
        /\ r.kind = "image"
           => /\ Delays(e) = {}
              /\ \A j \in Invokes(e, "gemini") : \A k \in Invokes(e, "gemini") :
                   e[j].model = e[k].model => j = k
              /\ (~r.lastError.isNull /\ Includes(r.lastError.message, "429")
                    /\ r.pc = "image_wait")
                 => /\ ~e[Len(e) - 1].pending
                    /\ e[Len(e)].model = r.modelsToTry[r.idx]
                    /\ r.idx >= 2

C13_Witness ==
  \E p \in Procs :
    LET r == proc[p]
        e == r.events
    IN  /\ r.kind = "sketch" /\ Len(e) = 3 /\ C13_TransientFirst(e, 1)
        /\ e[1].out.val = "RESOURCE_EXHAUSTED"
        /\ e[3].pending /\ e[3].model = "gemini-1.5-flash"


\* the loop over the Gemini candidates of a story or sketch-prompt request
\* has ended without a success
C14_PrimaryExhausted(r) ==
  r.kind \in TextKinds /\ r.modelsToTry # <<>> /\ r.idx > Len(r.modelsToTry)

\* C14: once the Gemini candidates are exhausted, a 3 s delay is taken
\* before the fallback if and only if the recorded Gemini error
\* (lastError) is quota-type; otherwise the fallback follows the failed
\* attempt at once.  OpenAI is only ever invoked with gpt-3.5-turbo, and
\* never before the candidates are exhausted.
C14_FallbackDelayIffTransient ==
  \A p \in Procs :
    LET r == proc[p]
        e == r.events
        O == Invokes(e, "openai")
        waits == {k \in Delays(e) : e[k].ms = FallbackDelayMs}
        quota == ~r.lastError.isNull /\ IsGeminiQuotaError(r.lastError.message)
    IN  /\ \A k \in O : e[k].model = "gpt-3.5-turbo"
        /\ (r.kind \in TextKinds /\ ~C14_PrimaryExhausted(r))
             => (waits = {} /\ O = {})
        /\ C14_PrimaryExhausted(r)
           => /\ waits # {} <=> quota
              /\ Cardinality(waits) <= 1
              /\ O # {}
                 => IF quota
                    THEN Min(O) >= 2 /\ waits = {Min(O) - 1}
                    ELSE \/ Min(O) = 1
                         \/ FailedInvoke(e, Min(O) - 1, "gemini")

C14_Witness ==
  \E p \in Procs :
    LET r == proc[p]
        e == r.events
    IN  /\ C14_PrimaryExhausted(r) /\ r.kind = "story"
        /\ Len(e) = 2 /\ FailedInvoke(e, 1, "gemini")
        /\ Includes(e[1].out.val, "503")
        /\ e[2].family = "openai" /\ e[2].pending


\* a story or sketch-prompt request has ended with both families failed
C15_BothFailed(r) ==
  /\ C14_PrimaryExhausted(r) /\ r.pc = "done" /\ r.response.status = 500
  /\ \A k \in Invokes(r.events, "openai") : ~SucceededInvoke(r.events, k, "openai")

\* the error the OpenAI service has thrown to the fallback, read off the log
C15_FallbackError(r) ==
  LET e == r.events
      O == Invokes(e, "openai")
      raw == IF O = {} THEN "OPENAI_API_KEY is not set in environment variables"
             ELSE IF e[Max(O)].out.ok THEN "OpenAI API returned empty response"
             ELSE e[Max(O)].out.val
  IN  IF Includes(raw, "API key") \/ Includes(raw, "authentication")
      THEN "OpenAI API authentication failed. Please check your OPENAI_API_KEY."
      ELSE IF Includes(raw, "quota") \/ Includes(raw, "limit")
           THEN "OpenAI API quota exceeded. Please wait 5-10 minutes and try again."
           ELSE "Failed to generate text with OpenAI: " \o raw

C15_First150(s) == IF Len(s) <= 150 THEN s ELSE SubSeq(s, 1, 150)

C15_QuotaType(r) ==
  \/ Includes(C15_FallbackError(r), "quota")
  \/ Includes(C15_FallbackError(r), "rate limit")
  \/ IsGeminiQuotaError(r.lastError.message)

\* C15 as claimed: whenever both families fail, the final error embeds the
\* recorded Gemini error and the OpenAI error, each cut to 150
\* characters, together with a remediation hint, quota-type or not.
C15_FinalErrorEmbedsBothWithHint ==
  \A p \in Procs :
    LET r == proc[p] IN
      C15_BothFailed(r)
      => /\ Includes(r.response.error, C15_First150(r.lastError.message))
         /\ Includes(r.response.error, C15_First150(C15_FallbackError(r)))
         /\ Includes(r.response.error, "Please wait")

\* C15 as amended: whenever both families fail, the final error is one of
\* two kinds.  When the OpenAI error or the recorded Gemini error is
\* quota-type it is the fixed wait-and-retry hint, which embeds neither
\* error; otherwise it is "Failed to generate <kind> with both Gemini and
\* OpenAI. Gemini error: <g>. OpenAI error: <o>" with g and o the two
\* errors cut to 150 characters each, and nothing else: no hint.
C15_FinalErrorHintOrBothErrors ==
  \A p \in Procs :
    LET r == proc[p]
        hint == "Both APIs have quota limits exceeded. Please wait 5-10 "
                  \o "minutes before trying again. Free tier limits reset "
                  \o "periodically."
    IN  C15_BothFailed(r)
        => /\ ~r.lastError.isNull
           /\ IF C15_QuotaType(r)
              THEN /\ SubSeq(r.response.error, 1, Len(hint)) = hint
                   /\ ~Includes(r.response.error, "Gemini error: ")
                   /\ ~Includes(r.response.error, "OpenAI error: ")
              ELSE r.response.error =
                     "Failed to generate "
                       \o (IF r.kind = "story" THEN "story" ELSE "prompt")
                       \o " with both Gemini and OpenAI. Gemini error: "
                       \o C15_First150(r.lastError.message)
                       \o ". OpenAI error: "
                       \o C15_First150(C15_FallbackError(r))

C15_Witness ==
  \E p \in Procs :
    LET r == proc[p] IN
      /\ C15_BothFailed(r) /\ ~C15_QuotaType(r)
      /\ Len(r.lastError.message) > 150
      /\ Len(C15_FallbackError(r)) > 150
      /\ r.kind = "story"
      /\ Len(r.response.error)
           = Len("Failed to generate story with both Gemini and OpenAI. Gemini error: ")
               + 150 + Len(". OpenAI error: ") + 150


\* the credentials set in the environment
C16_Credentials ==
  {env.GEMINI_API_KEY, env.OPENAI_API_KEY, env.REPLICATE_API_TOKEN} \ {""}

\* the error bodies the providers have sent to request r: the errors of
\* its failed invocations and, for an image request, the recorded error
\* with the response body in it
C16_ProviderErrors(r) ==
  {r.events[k].out.val : k \in {j \in 1..Len(r.events) :
                                  /\ r.events[j].type = "invoke"
                                  /\ ~r.events[j].pending
                                  /\ ~r.events[j].out.ok}}
  \cup (IF r.kind = "image" /\ ~r.lastError.isNull THEN {r.lastError.message}
        ELSE {})

\* C16: for every request kind, the error message of a failed generation
\* is bounded whatever the size of the providers' error bodies (no body
\* of more than 150 characters is embedded whole) and contains no
\* credential value.
C16_ErrorBoundedNoCredential ==
  \A p \in Procs :
    LET r == proc[p] IN
      (r.kind \in {"image", "story", "sketch"} /\ r.pc = "done"
         /\ r.response.status = 500)
      => /\ \A b \in C16_ProviderErrors(r) :
              Len(b) > 150 => ~Includes(r.response.error, b)
         /\ \A c \in C16_Credentials : ~Includes(r.response.error, c)


(***************************************************************************)
(* Specification with fairness: a request that has been accepted is        *)
(* resumed whenever the operation it awaits has settled (the event loop    *)
(* runs every continuation that is ready).  Nothing forces a request to    *)
(* arrive.  The requests are generate requests for two characters.        *)
(***************************************************************************)
Continue(p) ==
  \/ Lookup(p)
  \/ GeminiResponse(p)
  \/ GeminiRetryDelay(p)
  \/ GeminiRetryResponse(p)
  \/ FallbackDelay(p)
  \/ OpenAIResponse(p)
  \/ OpenAIRetryDelay(p)
  \/ ReplicateResponse(p)
  \/ DiscoverResponse(p)
  \/ ImageResponse(p)
  \/ Save(p)

\* any keys set or unset, the store up and holding Luke Skywalker's image
\* and Leia Organa's story
InitFair ==
  /\ env \in Environments
  /\ replicate = ""
  /\ dbUp = TRUE
  /\ cache = [image |-> {Document("Luke Skywalker", "1",
                                  "data:image/png;base64,T0xE")},
              story |-> {Document("Leia Organa", "leia-organa", "Old story")}]
  /\ oracle = FullOracle
  /\ proc = [p \in Procs |-> Idle]

NextFair == StartGenerateOf(1, GenerateKinds, ConcBodies) \/ Continue(1)

SpecFair == InitFair /\ [][NextFair]_vars /\ WF_vars(Continue(1))

\* a generate request that has been accepted and is not answered yet
C17_Running(r) == r.kind \in GenerateKinds /\ r.pc \notin {"idle", "done"}

\* the two terminal states: the artifact delivered, or every option
\* exhausted and the error returned
C17_Delivered(r) ==
  r.pc = "done" /\ r.response.status = 200 /\ r.response.success
C17_Exhausted(r) ==
  r.pc = "done" /\ r.response.status = 500 /\ ~r.response.success

\* the most invocations and delays one request can make: the discovery and
\* one call per candidate for an image; for a text two calls and a delay
\* per Gemini model, the fallback delay, the OpenAI calls and the delays
\* between them, and for a sketch the Replicate call after those
C17_MostEvents(kind) ==
  IF kind = "image" THEN 1 + Len(defaultModelsToTry)
  ELSE 3 * Len(GeminiTextModels) + 1 + (maxRetries + 1) + maxRetries
       + (IF kind = "sketch" THEN 1 ELSE 0)

\* C17: provided every outbound call returns or fails, every accepted
\* generate request reaches exactly one of the terminal states Delivered
\* and ExhaustedAllOptions, after a bounded number of provider invocations
\* and delays, and makes no invocation once it is there.
C17_ReachesOneTerminal ==
  /\ \A p \in Procs :
       C17_Running(proc[p]) ~> (C17_Delivered(proc[p]) \/ C17_Exhausted(proc[p]))
  /\ [](\A p \in Procs :
          /\ proc[p].kind \in GenerateKinds
             => Len(proc[p].events) <= C17_MostEvents(proc[p].kind)
          /\ (proc[p].kind \in GenerateKinds /\ proc[p].pc = "done"
                /\ Len(proc[p].events) > 0)
             => (C17_Delivered(proc[p]) \/ C17_Exhausted(proc[p]))
          /\ ~(C17_Delivered(proc[p]) /\ C17_Exhausted(proc[p])))
  /\ [][\A p \in Procs :
          proc[p].pc = "done" => proc'[p] = proc[p]]_vars

\* a sketch request at the end of the longest chain: both Gemini attempts,
\* both delays, both OpenAI attempts and the delay between them
C17_Witness ==
  /\ C17_Exhausted(proc[1])
  /\ proc[1].kind = "sketch"
  /\ Len(proc[1].events) = 7
  /\ Cardinality(Delays(proc[1].events)) = 3


\* the records the store holds for the id of request r
C18_Records(r) ==
  IF dbUp /\ r.kind \in {"image", "story"}
  THEN {d \in cache[IF r.kind = "image" THEN "image" ELSE "story"] :
          d.characterId = r.characterId}
  ELSE {}

\* C18: when the cache lookup for the derived id returns a record, the
\* generate request is answered with that record's artifact and cached =
\* true, without any provider invocation or model discovery and without
\* an insert into the cache.
C18_CacheHitShortCircuits ==
  [][\A p \in Procs :
       (proc[p].pc = "lookup" /\ proc'[p] # proc[p]
          /\ C18_Records(proc[p]) # {})
       => /\ proc'[p].pc = "done"
          /\ proc'[p].response.status = 200
          /\ proc'[p].response.success
          /\ proc'[p].response.cached = TRUE
          /\ proc'[p].response.artifact
               \in {d.artifact : d \in C18_Records(proc[p])}
          /\ proc'[p].events = <<>>
          /\ cache' = cache]_vars

\* the image of Luke Skywalker served from the cache: nothing was invoked
C18_Witness ==
  /\ proc[1].pc = "done"
  /\ proc[1].kind = "image"
  /\ proc[1].characterId = "1"
  /\ proc[1].response = GenerateOk("data:image/png;base64,T0xE", TRUE,
                                   "Luke Skywalker")
  /\ proc[1].events = <<>>
  /\ C18_Records(proc[1]) # {}


\* request r has entered its generation: it passed validation and was not
\* served from the cache
C19_Generating(r) ==
  /\ r.pc \notin {"idle", "lookup"}
  /\ ~(r.pc = "done" /\ r.response.status = 400)
  /\ ~(r.pc = "done" /\ r.response.status = 200 /\ r.kind # "sketch"
         /\ r.response.cached)

\* the outbound calls of request r to a family (the model discovery is a
\* call to the Gemini family)
C19_Outbound(r, family) ==
  {k \in 1..Len(r.events) :
     \/ r.events[k].type = "invoke" /\ r.events[k].family = family
     \/ family = "gemini" /\ r.events[k].type = "discover"}

\* the text of a succeeded invocation of `family` is what the service
\* returns: the story route answers with it
C19_SuccessReturned(r, family) ==
  \A k \in Invokes(r.events, family) :
    SucceededInvoke(r.events, k, family)
    => /\ r.text = Trim(r.events[k].out.val)
       /\ k = Len(r.events) \/ r.kind = "sketch"
       /\ (r.kind = "story" /\ r.pc = "done")
          => /\ r.response.status = 200
             /\ r.response.artifact = Trim(r.events[k].out.val)

\* the Gemini key is absent: no outbound call to Gemini, the family
\* counts as failed, OpenAI is invoked at once if its key is set
C19_GeminiKeyAbsent(r) ==
  /\ C19_Outbound(r, "gemini") = {}
  /\ r.lastError = Error(MissingGeminiKey)
  /\ env.OPENAI_API_KEY # ""
     => /\ Len(r.events) >= 1
        /\ r.events[1].type = "invoke"
        /\ r.events[1].family = "openai"
  /\ C19_SuccessReturned(r, "openai")

\* the OpenAI key is absent: no outbound call to OpenAI, a Gemini success
\* is returned
C19_OpenAIKeyAbsent(r) ==
  /\ C19_Outbound(r, "openai") = {}
  /\ C19_SuccessReturned(r, "gemini")

\* The claim as stated: in every generate call the two families fail
\* independently on a missing credential.
C19_FamiliesIndependentEveryKind ==
  \A p \in Procs :
    LET r == proc[p] IN
      (r.kind \in GenerateKinds /\ C19_Generating(r))
      => /\ env.GEMINI_API_KEY = ""
            => /\ C19_Outbound(r, "gemini") = {}
               /\ env.OPENAI_API_KEY # ""
                  => /\ Len(r.events) >= 1
                     /\ r.events[1].type = "invoke"
                     /\ r.events[1].family = "openai"
               /\ r.kind \in TextKinds => C19_SuccessReturned(r, "openai")
         /\ env.OPENAI_API_KEY = ""
            => /\ C19_Outbound(r, "openai") = {}
               /\ r.kind \in TextKinds => C19_SuccessReturned(r, "gemini")

\* C19: in the generation of a story or of a sketch prompt the two
\* families fail independently on a missing credential: with the Gemini
\* key absent no outbound call goes to Gemini, the family counts as failed,
\* OpenAI is invoked and its success is returned; with the OpenAI key
\* absent a Gemini success is returned and no outbound call goes to
\* OpenAI.  An image request has no fallback family: with the Gemini key
\* absent it fails at once without any outbound call.
C19_FamiliesIndependentText ==
  \A p \in Procs :
    LET r == proc[p] IN
      (r.kind \in GenerateKinds /\ C19_Generating(r))
      => /\ (env.GEMINI_API_KEY = "" /\ r.kind \in TextKinds)
            => C19_GeminiKeyAbsent(r)
         /\ (env.OPENAI_API_KEY = "" /\ r.kind \in TextKinds)
            => C19_OpenAIKeyAbsent(r)
         /\ (env.GEMINI_API_KEY = "" /\ r.kind = "image")
            => /\ r.events = <<>>
               /\ r.pc = "done"
               /\ r.response = Failure(500, MissingGeminiKey)

\* a story written by OpenAI with the Gemini key absent: one invocation,
\* of gpt-3.5-turbo, and its text in the response
C19_Witness ==
  /\ env.GEMINI_API_KEY = ""
  /\ proc[1].kind = "story"
  /\ proc[1].pc = "done"
  /\ Len(proc[1].events) = 1
  /\ SucceededInvoke(proc[1].events, 1, "openai")
  /\ proc[1].events[1].model = OpenAIModel
  /\ proc[1].response.status = 200
  /\ proc[1].response.artifact = Trim(proc[1].events[1].out.val)
  /\ ~proc[1].response.cached


(***************************************************************************)
(* Specification of two generate requests in flight together, one per      *)
(* process, interleaved at every await.  The providers answer from a       *)
(* script: the n-th invocation of a provider by a request gets the same    *)
(* answer whatever the other request does.                                 *)
(***************************************************************************)
IsoOracles ==
  {[scripted |-> TRUE, gemini |-> g, openai |-> o,
    replicate |-> <<[ok |-> FALSE, form |-> "", n |-> 0, val |-> "Request failed"]>>,
    discover |-> <<[form |-> "json", hasModels |-> TRUE, isArray |-> TRUE,
                    names |-> <<"models/Imagen-3.0-generate-001">>]>>,
    image |-> i] :
     g \in Scripts({Ok("Story A"), Fail("[429 Too Many Requests]")}),
     o \in Scripts({Ok("Story C"), Fail("429 status code (no body)")}),
     i \in {<<[form |-> "status", status |-> "404", text |-> "{}"]>>,
            <<[form |-> "json",
               data |-> Data(<<Part("QUJD", "image/jpeg")>>, <<>>)]>>}}

InitIso ==
  /\ env = [GEMINI_API_KEY |-> "AIza-1", OPENAI_API_KEY |-> "sk-1",
            REPLICATE_API_TOKEN |-> "r8-1"]
  /\ replicate = ""
  /\ dbUp = TRUE
  /\ cache = [image |-> {}, story |-> {}]
  /\ oracle \in IsoOracles
  /\ proc = [p \in Procs |-> Idle]

StepIso(p) ==
  \/ StartGenerateOf(p, {"image", "story"}, ConcBodies)
  \/ Lookup(p)
  \/ GeminiResponse(p)
  \/ GeminiRetryDelay(p)
  \/ GeminiRetryResponse(p)
  \/ FallbackDelay(p)
  \/ OpenAIResponse(p)
  \/ OpenAIRetryDelay(p)
  \/ DiscoverResponse(p)
  \/ ImageResponse(p)
  \/ Save(p)

NextIso == \E p \in Procs : StepIso(p)

SpecIso == InitIso /\ [][NextIso]_vars

\* the scripted answer to the invocation of request r in flight
C20_Answer(r, provider) == CHOOSE a \in Answers(r, provider) : TRUE

\* request r resumed at its await when it is the only request in flight
\* (the store is up and holds no document when it arrives)
C20_Resume(r) ==
  CASE r.pc = "lookup" ->
         IF r.kind = "story" THEN generateCharacterStory(r)
         ELSE generateCharacterImage(r)
    [] r.pc = "gemini_wait" ->
         LET out == C20_Answer(r, "gemini")
         IN  GeminiReplied([r EXCEPT !.events = Answered(@, out)], out)
    [] r.pc = "gemini_delay" -> RetryModel(r)
    [] r.pc = "gemini_retry_wait" ->
         LET out == C20_Answer(r, "gemini")
         IN  GeminiRetryReplied([r EXCEPT !.events = Answered(@, out)], out)
    [] r.pc = "fallback_delay" -> generateText([r EXCEPT !.retryCount = 0])
    [] r.pc = "openai_wait" ->
         LET out == C20_Answer(r, "openai")
         IN  OpenAIReplied([r EXCEPT !.events = Answered(@, out)], out)
    [] r.pc = "openai_delay" -> generateText([r EXCEPT !.retryCount = @ + 1])
    [] r.pc = "discover_wait" ->
         ModelsListed([r EXCEPT !.events = Answered(@, Ok(""))],
                      C20_Answer(r, "discover"))
    [] r.pc = "image_wait" ->
         LET reply == C20_Answer(r, "image")
         IN  ImageReplied([r EXCEPT !.events = Answered(@, ImageOutcome(reply))],
                          reply)
    [] r.pc = "save" -> Respond(r, GenerateOk(r.text, FALSE, r.body.name))
    [] OTHER -> r

\* the records request r goes through from r on when it runs alone
RECURSIVE C20_AloneFrom(_)
C20_AloneFrom(r) ==
  {r} \cup (IF r.pc = "done" THEN {} ELSE C20_AloneFrom(C20_Resume(r)))

\* the run of a request of `kind` with `body` alone, from its arrival on
C20_Alone(kind, body) ==
  C20_AloneFrom([Idle EXCEPT !.kind = kind, !.body = body,
                             !.characterId = DeriveCharacterId(body),
                             !.pc = "lookup"])

\* the other request in flight has another character id
C20_DifferentIds(p) ==
  \A q \in Procs \ {p} :
    proc[q].kind \in GenerateKinds
    => DeriveCharacterId(proc[q].body) # DeriveCharacterId(proc[p].body)

\* C20: of two generate requests in flight together with different
\* character ids, each goes through the states it goes through alone
\* against the same provider responses: the same invocations and delays in
\* the same order, and the same response.
C20_ConcurrentAsAlone ==
  \A p \in Procs :
    (proc[p].kind \in GenerateKinds /\ C20_DifferentIds(p))
    => proc[p] \in C20_Alone(proc[p].kind, proc[p].body)

\* both requests answered after they ran interleaved: a story that took
\* the fallback after two quota errors, and an image
C20_Witness ==
  /\ proc[1].pc = "done" /\ proc[2].pc = "done"
  /\ proc[1].kind = "story" /\ proc[2].kind = "image"
  /\ proc[1].characterId # proc[2].characterId
  /\ Len(proc[1].events) >= 5
  /\ Len(proc[2].events) >= 2
  /\ proc[1].response.status = 200


\* event k of log e is an invocation of the model of event j
C21_SameModel(e, j, k) ==
  e[k].type = "invoke" /\ e[k].family = e[j].family /\ e[k].model = e[j].model

\* event k is a failed Gemini invocation whose error is classified
\* NotFound; the catch block tests for a quota error first, so a message
\* that matches both is Transient
C21_NotFoundAt(e, k) ==
  /\ FailedInvoke(e, k, "gemini")
  /\ IsGeminiNotFound(e[k].out.val)
  /\ ~IsGeminiQuotaError(e[k].out.val)

\* C21: a failure classified NotFound makes the driver advance with no
\* delay and no re-invocation of the model.  Story and sketch prompt: the
\* model is never invoked again, no 5 s delay follows, and after a first
\* attempt the next invocation follows at once.  Image: a failed model
\* (HTTP 404 among the failures) is followed at once by the next
\* candidate, no model is invoked twice and no delay is ever taken.
C21_NotFoundAdvances ==
  \A p \in Procs :
    LET r == proc[p]
        e == r.events
    IN  /\ r.kind \in TextKinds
           => \A k \in 1..Len(e) :
                C21_NotFoundAt(e, k)
                => /\ \A j \in (k + 1)..Len(e) : ~C21_SameModel(e, k, j)
                   /\ k < Len(e)
                      => ~(e[k + 1].type = "delay"
                             /\ e[k + 1].ms = GeminiRetryDelayMs)
                   /\ (k < Len(e) /\ \A j \in 1..(k - 1) : ~C21_SameModel(e, k, j))
                      => e[k + 1].type = "invoke"
        /\ r.kind = "image"
           => /\ Delays(e) = {}
              /\ \A j, k \in Invokes(e, "gemini") : j < k => e[j].model # e[k].model
              /\ \A k \in Invokes(e, "gemini") :
                   (~e[k].pending /\ ~e[k].out.ok /\ k < Len(e))
                   => /\ e[k + 1].type = "invoke"
                      /\ r.modelsToTry[k] = e[k + 1].model

\* a story request whose Gemini model was not found: the second event is
\* the invocation of OpenAI
C21_Witness ==
  /\ proc[1].kind = "story"
  /\ Len(proc[1].events) = 2
  /\ C21_NotFoundAt(proc[1].events, 1)
  /\ proc[1].events[2].type = "invoke"
  /\ proc[1].events[2].family = "openai"


\* the Gemini invocations of log e, in the order they were made
C22_GeminiCalls(e) ==
  SelectSeq(e, LAMBDA x : x.type = "invoke" /\ x.family = "gemini")

\* the Gemini invocations of r follow its candidate list from its first
\* entry on, one invocation per candidate for an image and at most two
\* (the attempt and its retry) for a text
C22_InListOrder(r) ==
  LET calls == C22_GeminiCalls(r.events)
  IN  IF r.kind = "image"
      THEN /\ Len(calls) <= Len(r.modelsToTry)
           /\ \A i \in 1..Len(calls) : calls[i].model = r.modelsToTry[i]
      ELSE \A i \in 1..Len(calls) :
             /\ calls[i].model \in {r.modelsToTry[j] : j \in 1..Len(r.modelsToTry)}
             /\ \A j \in 1..(i - 1) :
                  C12_Places(r.modelsToTry, calls[j].model)
                    \cap {n \in 1..Len(r.modelsToTry) :
                            \E m \in C12_Places(r.modelsToTry, calls[i].model) : n <= m}
                  # {}

\* the family of r has ended without a success: the image request has
\* failed, the text request has gone on to the fallback
C22_FamilyOver(r) ==
  \/ r.kind = "image" /\ r.pc = "done" /\ r.response.status = 500
  \/ r.kind \in TextKinds
       /\ \A k \in Invokes(r.events, "gemini") : ~r.events[k].out.ok
       /\ (r.pc \in {"fallback_delay", "openai_wait", "openai_delay"}
             \/ (r.pc = "done" /\ r.response.status = 500))

\* C22: a failure of one model, whatever its class, never ends the family:
\* the family is over without a success only when every candidate of the
\* list has been invoked, in list order, and has failed; until then every
\* failed invocation of an image model is followed by the invocation of
\* the next candidate.
C22_FatalNeverAborts ==
  \A p \in Procs :
    LET r == proc[p]
        e == r.events
        calls == C22_GeminiCalls(e)
    IN  (r.kind \in GenerateKinds /\ env.GEMINI_API_KEY # ""
           /\ r.modelsToTry # <<>>)
        => /\ C22_InListOrder(r)
           /\ C22_FamilyOver(r)
              => /\ \A i \in 1..Len(r.modelsToTry) :
                      \E c \in 1..Len(calls) :
                        /\ calls[c].model = r.modelsToTry[i]
                        /\ ~calls[c].pending /\ ~calls[c].out.ok
                 /\ \A c \in 1..Len(calls) :
                      r.kind = "image" => ~calls[c].out.ok
           /\ r.kind = "image"
              => \A k \in Invokes(e, "gemini") :
                   (~e[k].pending /\ ~e[k].out.ok
                      /\ Len(C22_GeminiCalls(SubSeq(e, 1, k))) < Len(r.modelsToTry))
                   => /\ k < Len(e)
                      /\ e[k + 1].type = "invoke"

\* an image request on the default list whose first model failed with a
\* thrown error (recorded as the last error) and whose second model is
\* being invoked
C22_Witness ==
  /\ proc[1].kind = "image"
  /\ proc[1].modelsToTry = defaultModelsToTry
  /\ Len(proc[1].events) = 3
  /\ FailedInvoke(proc[1].events, 2, "gemini")
  /\ proc[1].lastError = Error("fetch failed")
  /\ proc[1].events[3].pending
  /\ proc[1].events[3].model = defaultModelsToTry[2]


\* the failed Gemini invocations of request r
C23_Failed(r) ==
  {k \in Invokes(r.events, "gemini") : ~r.events[k].pending /\ ~r.events[k].out.ok}

\* the failed invocations whose error the code records: for a text the
\* first attempts (a retry follows the 5 s delay; its error is only
\* logged), for an image the invocations that threw (a 404, a body that
\* does not parse and a body of no known shape throw nothing)
C23_Recorded(r) ==
  IF r.kind = "image"
  THEN {k \in C23_Failed(r) : r.events[k].out.val # ""}
  ELSE {k \in C23_Failed(r) :
          k = 1 \/ ~(r.events[k - 1].type = "delay"
                       /\ r.events[k - 1].ms = GeminiRetryDelayMs)}

\* every primary candidate of r has failed, after at least one invocation
C23_AllFailed(r) ==
  /\ r.kind \in GenerateKinds
  /\ C22_FamilyOver(r)
  /\ C23_Failed(r) # {}

\* The claim as stated: the error attached to the family's failure is the
\* error of its most recent failed invocation, and is never absent.
C23_LastErrorIsMostRecentFailure ==
  \A p \in Procs :
    LET r == proc[p] IN
      C23_AllFailed(r)
      => /\ ~r.lastError.isNull
         /\ r.lastError.message = r.events[Max(C23_Failed(r))].out.val

\* C23: when every primary candidate fails, the error attached to the
\* family's failure is the last error the code recorded: for a story or a
\* sketch prompt the error of the first attempt on the last candidate (the
\* error of a retry is not recorded), for an image the error of the most
\* recent invocation that threw; it is absent, and the final message says
\* "Unknown error", when every image invocation ended in a 404, an
\* unparseable body or a body of no known shape.
C23_LastErrorIsLastRecorded ==
  \A p \in Procs :
    LET r == proc[p] IN
      C23_AllFailed(r)
      => IF C23_Recorded(r) = {}
         THEN /\ r.kind = "image"
              /\ r.lastError.isNull
              /\ Includes(r.response.error, "Last error: Unknown error\n")
         ELSE /\ r.lastError = Error(r.events[Max(C23_Recorded(r))].out.val)
              /\ r.kind = "image"
                 => Includes(r.response.error,
                             "Last error: " \o r.lastError.message \o "\n")

\* a story request whose retry failed with another error than the first
\* attempt: the recorded error is the first one
C23_Witness ==
  /\ proc[1].kind = "story"
  /\ C23_AllFailed(proc[1])
  /\ Len(proc[1].events) >= 3
  /\ FailedInvoke(proc[1].events, 1, "gemini")
  /\ FailedInvoke(proc[1].events, 3, "gemini")
  /\ proc[1].events[3].out.val # proc[1].events[1].out.val
  /\ proc[1].lastError.message = proc[1].events[1].out.val


\* the error of the last OpenAI invocation of r as the provider gave it
\* (the missing-key error when the client could not be built)
C24_OpenAIRaw(r) ==
  LET e == r.events
      O == Invokes(e, "openai")
  IN  IF O = {} THEN MissingOpenAIKey
      ELSE IF e[Max(O)].out.ok THEN OpenAIEmptyResponse
      ELSE e[Max(O)].out.val

\* the final error is the hint that both APIs exceeded their quota
C24_SaysBothQuota(r) == Includes(r.response.error, "Both APIs have quota limits exceeded")

\* C24: the final error says that both APIs exceeded their quota only when
\* the primary family's last error and the fallback family's error are
\* both quota-type; when either family failed for another reason the
\* generic message naming both errors is produced.
C24_BothQuotaOnlyWhenBoth ==
  \A p \in Procs :
    LET r == proc[p]
        both == /\ IsGeminiQuotaError(r.lastError.message)
                /\ IsOpenAIRetryable(C24_OpenAIRaw(r))
    IN  C15_BothFailed(r)
        => /\ C24_SaysBothQuota(r) => both
           /\ ~both => /\ Includes(r.response.error, "with both Gemini and OpenAI")
                       /\ Includes(r.response.error, "Gemini error: ")
                       /\ Includes(r.response.error, "OpenAI error: ")


\* the names the discovery of request r has listed (none when the listing
\* failed or carried no array of models)
C25_Listed(r) ==
  IF r.discovery.form = "json" /\ r.discovery.hasModels /\ r.discovery.isArray
  THEN r.discovery.names
  ELSE <<>>

\* the places in the listing of the names that contain "image" or
\* "imagen", whatever the case of their letters
C25_ImagePlaces(r) ==
  {k \in 1..Len(C25_Listed(r)) :
     \/ Includes(ToLowerCase(C25_Listed(r)[k]), "image")
     \/ Includes(ToLowerCase(C25_Listed(r)[k]), "imagen")}

\* a name without its "models/" prefix
C25_NoPrefix(name) ==
  IF Len(name) >= 7 /\ SubSeq(name, 1, 7) = "models/"
  THEN SubSeq(name, 8, Len(name))
  ELSE name

\* the discovery of image request r has been answered
C25_Discovered(r) ==
  /\ r.kind = "image"
  /\ Len(r.events) >= 1
  /\ r.events[1].type = "discover"
  /\ ~r.events[1].pending

\* C25: for an image request, when the discovery lists a model whose name
\* contains "image" or "imagen" the candidate list is exactly the first
\* such model without its "models/" prefix, and no other model (no entry
\* of the default list) is invoked even when it fails; otherwise the
\* candidate list is exactly the default list in its order.
C25_CandidateList ==
  \A p \in Procs :
    LET r == proc[p]
        e == r.events
    IN  C25_Discovered(r)
        => IF C25_ImagePlaces(r) # {}
           THEN LET name == C25_NoPrefix(C25_Listed(r)[Min(C25_ImagePlaces(r))])
                IN  /\ r.modelsToTry = <<name>>
                    /\ Cardinality(Invokes(e, "gemini")) <= 1
                    /\ \A k \in Invokes(e, "gemini") : e[k].model = name
           ELSE /\ r.modelsToTry = defaultModelsToTry
                /\ r.modelsToTry = <<"gemini-3-pro-image-preview",
                                     "gemini-2.5-flash-exp",
                                     "gemini-2.0-flash-exp",
                                     "gemini-1.5-flash-latest",
                                     "gemini-1.5-pro-latest">>

\* an image request that failed on the one model the discovery offered: the
\* listing named Imagen-3.0 before a second image model, and the request
\* ended after a single invocation
C25_Witness ==
  /\ C25_Discovered(proc[1])
  /\ Cardinality(C25_ImagePlaces(proc[1])) = 2
  /\ proc[1].modelsToTry = <<"Imagen-3.0-generate-001">>
  /\ proc[1].pc = "done"
  /\ proc[1].response.status = 500
  /\ Len(proc[1].events) = 2
  /\ proc[1].events[2].model = "Imagen-3.0-generate-001"


\* C26: every artifact delivered by a successful generate request (image
\* URI, story text, sketch prompt) is non-empty: a provider response with
\* no content or only whitespace is never taken for a success.
C26_ArtifactNonEmpty ==
  \A p \in Procs :
    LET r == proc[p] IN
      r.kind \in GenerateKinds
      => /\ r.pc \in {"save", "replicate_wait"} => r.text # ""
         /\ (r.pc = "done" /\ r.response.status = 200)
            => /\ r.response.artifact # ""
               /\ r.kind = "sketch" => r.response.prompt # ""


(***************************************************************************)
(* Specification of the image parser: one image request whose model        *)
(* invocations are all answered with the same reply, drawn from every      *)
(* body of up to MaxParts content parts and up to one generated image      *)
(* (and from the replies that carry no JSON).                              *)
(***************************************************************************)
MaxParts == 2

\* the content parts a body can carry: payload and mime type present or not
ParseParts ==
  {Part(d, m) : d \in {"", "QUJD"}, m \in {"", "image/jpeg"}}
    \cup {Part("R0hJ", "image/webp")}

PartLists == UNION {[1..n -> ParseParts] : n \in 0..MaxParts}

GeneratedLists ==
  {<<>>} \cup {<<Generated(a, b, c)>> :
                 a \in {"", "SU1H"}, b \in {"", "REVG"}, c \in {"", "QllU"}}

ParseReplies ==
  {[form |-> "json", data |-> Data(parts, gen)] :
     parts \in PartLists, gen \in GeneratedLists}
  \cup {[form |-> "text"], [form |-> "status", status |-> "404", text |-> "{}"]}

ParseOracles ==
  {[scripted |-> TRUE, gemini |-> <<Ok("Story A")>>, openai |-> <<Ok("Story C")>>,
    replicate |-> <<[ok |-> FALSE, form |-> "", n |-> 0, val |-> "Request failed"]>>,
    discover |-> <<d>>, image |-> <<i>>] :
     d \in {[form |-> "throw"],
            [form |-> "json", hasModels |-> TRUE, isArray |-> TRUE,
             names |-> <<"models/Imagen-3.0-generate-001">>]},
     i \in ParseReplies}

InitParse ==
  /\ env = [GEMINI_API_KEY |-> "AIza-1", OPENAI_API_KEY |-> "sk-1",
            REPLICATE_API_TOKEN |-> "r8-1"]
  /\ replicate = ""
  /\ dbUp = TRUE
  /\ cache = [image |-> {}, story |-> {}]
  /\ oracle \in ParseOracles
  /\ proc = [p \in Procs |-> Idle]

NextParse ==
  \/ StartGenerateOf(1, {"image"}, {Body(TRUE, "Leia Organa", FALSE, "")})
  \/ Lookup(1)
  \/ DiscoverResponse(1)
  \/ ImageResponse(1)
  \/ Save(1)

SpecParse == InitParse /\ [][NextParse]_vars

\* the URI of the first content part that carries a payload ("" if none)
RECURSIVE C27_FirstInline(_)
C27_FirstInline(parts) ==
  IF parts = <<>> THEN ""
  ELSE IF Head(parts).data # ""
       THEN "data:"
              \o (IF Head(parts).mimeType # "" THEN Head(parts).mimeType
                  ELSE "image/png")
              \o ";base64," \o Head(parts).data
       ELSE C27_FirstInline(Tail(parts))

\* the URI of generatedImages[0]: the first of its three fields that is
\* not empty ("" if none)
C27_FirstGenerated(gen) ==
  IF gen = <<>> THEN ""
  ELSE LET first == CHOOSE f \in {gen[1].imageBase64, gen[1].bytesBase64Encoded,
                                  gen[1].bytes, ""} :
                      \/ f = gen[1].imageBase64 /\ f # ""
                      \/ gen[1].imageBase64 = "" /\ f = gen[1].bytesBase64Encoded
                           /\ f # ""
                      \/ gen[1].imageBase64 = "" /\ gen[1].bytesBase64Encoded = ""
                           /\ f = gen[1].bytes
       IN  IF first = "" THEN "" ELSE "data:image/png;base64," \o first

\* what the claim says a reply yields
C27_Expected(reply) ==
  IF reply.form # "json" THEN ""
  ELSE LET parts == IF reply.data.candidates = <<>> THEN <<>>
                    ELSE reply.data.candidates[1].parts
       IN  IF C27_FirstInline(parts) # "" THEN C27_FirstInline(parts)
           ELSE C27_FirstGenerated(reply.data.generatedImages)

\* C27: the parser tries the shapes in a fixed order and the first match
\* wins: the first content part with a payload gives
\* data:<mimeType or image/png>;base64,<payload>; only without such a part
\* generatedImages[0] is read, the first non-empty of imageBase64,
\* bytesBase64Encoded, bytes; a reply matching no shape is no success and
\* the next candidate is invoked.
C27_ParsePriority ==
  LET r == proc[1]
      e == r.events
      expected == C27_Expected(oracle.image[1])
  IN  (r.kind = "image" /\ Len(e) >= 2 /\ ~e[2].pending)
      => IF expected # ""
         THEN /\ Len(e) = 2
              /\ r.text = expected
              /\ r.pc \in {"save", "done"}
              /\ r.pc = "done" => r.response = GenerateOk(expected, FALSE, r.body.name)
         ELSE /\ r.text = ""
              /\ r.pc # "save"
              /\ r.pc = "done" => r.response.status = 500
              /\ IF Len(r.modelsToTry) = 1
                 THEN Len(e) = 2 /\ r.pc = "done"
                 ELSE /\ Len(e) >= 3
                      /\ e[3].type = "invoke"
                      /\ e[3].model = r.modelsToTry[2]

\* a body whose first part carries no payload, whose second part carries
\* one without a mime type, and that also carries a generated image: the
\* part wins, with the default mime type
C27_Witness ==
  /\ proc[1].pc = "done"
  /\ oracle.image[1].form = "json"
  /\ oracle.image[1].data =
       Data(<<Part("", "image/jpeg"), Part("QUJD", "")>>,
            <<Generated("", "REVG", "QllU")>>)
  /\ proc[1].response.status = 200
  /\ proc[1].response.artifact = "data:image/png;base64,QUJD"


\* event k of log e is a wait inside generateText: a delay that follows an
\* OpenAI invocation
C28_OpenAIWait(e, k) ==
  /\ e[k].type = "delay"
  /\ k > 1
  /\ e[k - 1].type = "invoke" /\ e[k - 1].family = "openai"

\* C28: one call of generateText invokes OpenAI at most twice; the second
\* invocation follows a first one that failed with a message containing
\* "quota", "rate limit" or "429", after a wait of 5000 ms; every other
\* failure (an empty response, an authentication error) is reported after
\* the single invocation without a wait, and a missing credential without
\* any invocation or wait.
C28_OpenAIAtMostTwice ==
  \A p \in Procs :
    LET r == proc[p]
        e == r.events
        O == Invokes(e, "openai")
    IN  r.kind \in TextKinds
        => /\ Cardinality(O) <= 2
           /\ \A k \in O :
                (k # Min(O))
                => /\ k = Min(O) + 2
                   /\ FailedInvoke(e, Min(O), "openai")
                   /\ \/ Includes(e[Min(O)].out.val, "quota")
                      \/ Includes(e[Min(O)].out.val, "rate limit")
                      \/ Includes(e[Min(O)].out.val, "429")
                   /\ e[Min(O) + 1] = DelayEvent(5000)
           /\ \A k \in 1..Len(e) : C28_OpenAIWait(e, k) => k = Min(O) + 1
           /\ \A k \in O :
                (/\ ~e[k].pending
                 /\ \/ e[k].out.ok /\ e[k].out.val = ""
                    \/ /\ ~e[k].out.ok
                       /\ ~Includes(e[k].out.val, "quota")
                       /\ ~Includes(e[k].out.val, "rate limit")
                       /\ ~Includes(e[k].out.val, "429"))
                => /\ k = Len(e)
                   /\ r.pc = "done"
                   /\ r.response.status = 500
           /\ (env.OPENAI_API_KEY = "" /\ C14_PrimaryExhausted(r)
                 /\ r.pc # "fallback_delay")
              => /\ O = {}
                 /\ r.pc = "done"
                 /\ r.response.status = 500
                 /\ Len(e) > 0 => e[Len(e)].type = "invoke" \/ e[Len(e)].ms = FallbackDelayMs

\* a story written by OpenAI at its second invocation: the first failed
\* with a 429, the wait of 5000 ms followed
C28_Witness ==
  LET e == proc[1].events IN
    /\ proc[1].kind = "story"
    /\ proc[1].pc = "done"
    /\ proc[1].response.status = 200
    /\ Cardinality(Invokes(e, "openai")) = 2
    /\ Len(e) >= 3
    /\ FailedInvoke(e, Len(e) - 2, "openai")
    /\ e[Len(e) - 1] = DelayEvent(5000)
    /\ SucceededInvoke(e, Len(e), "openai")


\* the time request r has spent in delays, in ms
RECURSIVE C29_Waited(_)
C29_Waited(e) ==
  IF e = <<>> THEN 0
  ELSE (IF Head(e).type = "delay" THEN Head(e).ms ELSE 0) + C29_Waited(Tail(e))

\* C29: a story or sketch-prompt generation makes at most 4 invocations of
\* the text providers, at most 2 of the Gemini model and at most 2 of the
\* OpenAI model, and waits at most 13 s in all: 5 s before the Gemini
\* retry, 3 s before the fallback, 5 s before the OpenAI retry.
C29_InvocationAndWaitBudget ==
  \A p \in Procs :
    LET r == proc[p]
        e == r.events
    IN  r.kind \in TextKinds
        => /\ Cardinality(Invokes(e, "gemini")) <= 2
           /\ Cardinality(Invokes(e, "openai")) <= 2
           /\ \A k \in Invokes(e, "gemini") : e[k].model = "gemini-1.5-flash"
           /\ \A k \in Invokes(e, "openai") : e[k].model = "gpt-3.5-turbo"
           /\ Cardinality(Invokes(e, "gemini") \cup Invokes(e, "openai")) <= 4
           /\ C29_Waited(e) <= 13000
           /\ \A k \in Delays(e) : e[k].ms \in {5000, 3000}
           /\ Cardinality(Delays(e)) <= 3

\* a story request that used the whole budget: four invocations and 13 s
\* of delays
C29_Witness ==
  /\ proc[1].kind = "story"
  /\ proc[1].pc = "done"
  /\ Cardinality(Invokes(proc[1].events, "gemini")) = 2
  /\ Cardinality(Invokes(proc[1].events, "openai")) = 2
  /\ C29_Waited(proc[1].events) = 13000
  /\ proc[1].events[2].ms = 5000
  /\ proc[1].events[4].ms = 3000
  /\ proc[1].events[6].ms = 5000


\* event k of log e is an invocation of a text provider that returned a
\* prompt to the route (an empty OpenAI content is an error)
C30_PromptDelivered(e, k) ==
  /\ e[k].type = "invoke" /\ e[k].family \in {"gemini", "openai"}
  /\ ~e[k].pending /\ e[k].out.ok
  /\ e[k].family = "openai" => e[k].out.val # ""

\* C30: in the sketch route Replicate is invoked only after the prompt
\* step has delivered a prompt, and with that prompt; when the prompt step
\* fails the request ends in error without a Replicate invocation; a
\* sketch request never reads or writes a cache record.
C30_SketchPromptThenReplicate ==
  /\ [](\A p \in Procs :
          LET r == proc[p]
              e == r.events
          IN  r.kind = "sketch"
              => /\ \A k \in Invokes(e, "replicate") :
                      /\ k = Len(e) /\ k > 1
                      /\ C30_PromptDelivered(e, k - 1)
                      /\ r.text = Trim(e[k - 1].out.val)
                      /\ e[k].input = r.text \o ", anime pencil sketch, clean "
                                        \o "line-art, manga style, high detail"
                 /\ (\A k \in 1..Len(e) : ~C30_PromptDelivered(e, k))
                    => /\ Invokes(e, "replicate") = {}
                       /\ r.pc = "done" => r.response.status \in {400, 500}
                 /\ (r.pc = "done" /\ r.response.status = 200)
                    => r.response.prompt = r.text
                 /\ r.pc \notin {"lookup", "save"}
                 /\ r.characterId = "")
  /\ [][\A p \in Procs :
          (proc[p].kind = "sketch" /\ proc'[p] # proc[p]) => cache' = cache]_vars

\* a sketch drawn from a prompt that the fallback wrote after Gemini had
\* failed
C30_Witness ==
  LET e == proc[1].events IN
    /\ proc[1].kind = "sketch"
    /\ proc[1].pc = "done"
    /\ proc[1].response.status = 200
    /\ Len(e) = 3
    /\ FailedInvoke(e, 1, "gemini")
    /\ C30_PromptDelivered(e, 2) /\ e[2].family = "openai"
    /\ e[3].family = "replicate"
    /\ proc[1].response.prompt = Trim(e[2].out.val)


\* the documents a step adds to the cache
C31_Inserted == (cache'.image \ cache.image) \cup (cache'.story \ cache.story)

\* request r holds an artifact that a provider has produced for it: its
\* last event is an answered, succeeded invocation
C31_Generated(r) ==
  /\ r.events # <<>>
  /\ r.events[Len(r.events)].type = "invoke"
  /\ ~r.events[Len(r.events)].pending
  /\ r.events[Len(r.events)].out.ok

\* C31: a cache record is inserted only after a generation in the same
\* request has delivered its artifact: the step that inserts is the save
\* of a request that holds a generated artifact, it stores that artifact
\* under the request's id and the request is answered with it; a step
\* that ends a request in an error (400 or 500) leaves the cache unchanged.
C31_InsertOnlyAfterDelivered ==
  [][/\ C31_Inserted # {}
        => \E p \in Procs :
             /\ proc[p].pc = "save" /\ proc'[p].pc = "done"
             /\ C31_Generated(proc[p])
             /\ proc'[p].response.status = 200
             /\ ~proc'[p].response.cached
             /\ C31_Inserted =
                  {[characterName |-> proc[p].body.name,
                    characterId |-> proc[p].characterId,
                    artifact |-> proc'[p].response.artifact]}
     /\ \A p \in Procs :
          (proc[p].pc # "done" /\ proc'[p].pc = "done"
             /\ proc'[p].response.status \in {400, 500})
          => /\ cache' = cache
             /\ proc[p].pc # "save"]_vars

\* a story generated and stored: the cache holds it under the request's id
C31_Witness ==
  /\ proc[1].kind = "story"
  /\ proc[1].pc = "done"
  /\ proc[1].response.status = 200
  /\ ~proc[1].response.cached
  /\ C31_Generated(proc[1])
  /\ [characterName |-> proc[1].body.name, characterId |-> proc[1].characterId,
      artifact |-> proc[1].response.artifact] \in cache.story


\* the artifact the route returns for the output of a succeeded invocation:
\* the text services trim the text, the image service returns the data URI
C32_ArtifactOf(r, out) == IF r.kind = "story" THEN Trim(out.val) ELSE out.val

\* the returned artifact of request r was produced by a provider while
\* serving r: the last thing the request did is a succeeded invocation, and
\* the response carries its output
C32_ProducedHere(r) ==
  /\ C31_Generated(r)
  /\ r.response.artifact = C32_ArtifactOf(r, r.events[Len(r.events)].out)

\* C32: a successful response of the image or story generate route carries
\* cached = true if and only if nothing was sent to a provider while serving
\* the request (no invocation, no model discovery), and cached = false if
\* and only if the returned artifact was produced by a provider in that
\* request.
C32_CachedIffNoInvocation ==
  \A p \in Procs :
    LET r == proc[p] IN
      (r.pc = "done" /\ r.kind \in {"image", "story"} /\ r.response.status = 200)
      => /\ r.response.cached \in BOOLEAN
         /\ r.response.cached <=> r.events = <<>>
         /\ ~r.response.cached <=> C32_ProducedHere(r)

\* a story that the fallback family produced after the primary failed:
\* returned with cached = false
C32_Witness ==
  /\ proc[1].pc = "done" /\ proc[1].kind = "story"
  /\ proc[1].response.status = 200
  /\ proc[1].response.cached = FALSE
  /\ proc[1].events[Len(proc[1].events)].family = "openai"
  /\ C32_ProducedHere(proc[1])


\* C33: while the store is available and no record expires, once a generate
\* call for id X has returned success with cached = false, every call for X
\* that arrives after that answer (getCached or generate, on any slot)
\* returns the same artifact, whatever generate calls for X were
\* interleaved with the first one.
C33_LaterCallsReturnSameArtifact ==
  \A q \in Procs :
    (proc[q].pc = "done"
       /\ proc[q].kind \in {"image", "story", "getImage", "getStory"})
    => \A f \in proc[q].after :
         (f.coll = Collection(proc[q].kind)
            /\ f.characterId = proc[q].characterId)
         => /\ proc[q].response.status = 200
            /\ proc[q].response.artifact = f.artifact


\* C34: when the store is unavailable, the lookup of a getCached request
\* is answered with 404 (never 500, never an artifact), without any
\* provider invocation and without touching the store.
C34_StoreDownGetNotFound ==
  [][\A p \in Procs :
       (proc[p].pc = "get_lookup" /\ proc'[p] # proc[p] /\ ~dbUp)
       => /\ proc'[p].pc = "done"
          /\ proc'[p].response.status = 404
          /\ ~proc'[p].response.success
          /\ "artifact" \notin DOMAIN proc'[p].response
          /\ proc'[p].events = <<>>
          /\ cache' = cache]_vars

\* a getCached request for a story answered while the store is down, with
\* a record for the id in the collection
C34_Witness ==
  /\ ~dbUp
  /\ proc[1].kind = "getStory" /\ proc[1].pc = "done"
  /\ proc[1].characterId = "1"
  /\ proc[1].response = Failure(404, "Caching not available - MongoDB not configured")
  /\ Found("story", "1") # {}


\* the credential process.env holds for a provider family
C35_Credential(family) ==
  CASE family = "gemini" -> env.GEMINI_API_KEY
    [] family = "openai" -> env.OPENAI_API_KEY
    [] OTHER -> env.REPLICATE_API_TOKEN

\* C35: every invocation of the Gemini, OpenAI and Replicate providers is
\* made with the credential value present at the invocation (so nothing a
\* preceding call left behind decides the outcome of a call): the step in
\* which an invocation leaves carries the value process.env holds for the
\* family in that step, and no invocation leaves while the value is unset.
C35_InvokedWithCurrentCredential ==
  [][\A p \in Procs :
       LET e == proc'[p].events IN
         (Len(e) = Len(proc[p].events) + 1 /\ e[Len(e)].type = "invoke")
         => /\ e[Len(e)].key = C35_Credential(e[Len(e)].family)
            /\ e[Len(e)].key # ""]_vars


\* the invocations of the alternative endpoint in a log
C36_AlternativeCalls(e) == {k \in 1..Len(e) : e[k].model = ImagenAlternative}

\* C36: in the two-endpoint image generator, a call whose primary endpoint
\* did not deliver an image (a status that is not OK, or an OK status with
\* an unparseable or unrecognised body) has tried the alternative endpoint
\* exactly once when it ends, and a call whose primary endpoint delivered
\* an image has never tried it.
C36_AlternativeTriedOnce ==
  \A p \in Procs :
    LET r == proc[p] IN
      (r.kind = "imagen" /\ r.pc = "done" /\ r.events # <<>>)
      => /\ r.events[1].model = ImagenPrimary
         /\ r.events[1].out.ok => C36_AlternativeCalls(r.events) = {}
         /\ ~r.events[1].out.ok => Cardinality(C36_AlternativeCalls(r.events)) = 1


\* the last non-empty '/'-separated segment of url ("" when there is none):
\* the longest run without '/' that only '/' characters follow
C37_LastSegment(url) ==
  LET n == Len(url)
      ends == {j \in 1..n : /\ CharAt(url, j) # "/"
                            /\ \A k \in (j + 1)..n : CharAt(url, k) = "/"}
  IN  IF ends = {} THEN ""
      ELSE LET j == Max(ends)
               i == Min({i \in 1..j : \A k \in i..j : CharAt(url, k) # "/"})
           IN  SubSeq(url, i, j)

\* C37: extractIdFromUrl returns a non-empty string for every string: the
\* trailing numeric segment when the url has one, else the last non-empty
\* '/'-separated segment, else "unknown"; two urls with the same trailing
\* numeric segment get the same id.
C37_ExtractIdTotal ==
  /\ \A p \in Procs :
       LET r == proc[p] IN
         (r.kind = "extract" /\ r.pc = "done")
         => /\ r.characterId # ""
            /\ r.characterId =
                 IF TrailingNumericSegment(r.body.url) # ""
                 THEN TrailingNumericSegment(r.body.url)
                 ELSE IF C37_LastSegment(r.body.url) # ""
                      THEN C37_LastSegment(r.body.url)
                      ELSE "unknown"
  /\ \A p, q \in Procs :
       (proc[p].kind = "extract" /\ proc[q].kind = "extract"
          /\ TrailingNumericSegment(proc[p].body.url) # ""
          /\ TrailingNumericSegment(proc[p].body.url)
               = TrailingNumericSegment(proc[q].body.url))
       => proc[p].characterId = proc[q].characterId

\* a person and a planet with the same number get the same id
C37_Witness ==
  /\ proc[1].kind = "extract" /\ proc[1].body.url = "https://x/people/1/"
  /\ proc[2].kind = "extract" /\ proc[2].body.url = "https://x/planets/1/"
  /\ proc[1].characterId = "1" /\ proc[2].characterId = "1"


\* the beginning of the final error that carries the fallback error alone
C38_FallbackAlone(kind) ==
  "Failed to generate " \o KindWord(kind) \o ". OpenAI fallback error: "

\* request r has reached the fallback family
C38_InFallback(r) ==
  \/ r.pc \in {"fallback_delay", "openai_wait", "openai_delay"}
  \/ Invokes(r.events, "openai") # {}

\* C38: in generateCharacterStory and generateAnimeSketchPrompt the fallback
\* family is reached only with a recorded primary error (lastError is
\* non-null whenever OpenAI is invoked), and no request ends with the
\* final error "Failed to generate ... OpenAI fallback error: ...".
C38_FallbackOnlyWithRecordedError ==
  \A p \in Procs :
    LET r == proc[p] IN
      r.kind \in TextKinds
      => /\ C38_InFallback(r) => ~r.lastError.isNull
         /\ (r.pc = "done" /\ r.response.status = 500)
            => Substring0(r.response.error, Len(C38_FallbackAlone(r.kind)))
                 # C38_FallbackAlone(r.kind)

\* a story that failed in both families with the Gemini key unset: the
\* missing key is the recorded primary error and the final error names both
C38_Witness ==
  /\ proc[1].kind = "story" /\ proc[1].pc = "done"
  /\ env.GEMINI_API_KEY = ""
  /\ Invokes(proc[1].events, "openai") # {}
  /\ proc[1].lastError = Error(MissingGeminiKey)
  /\ proc[1].response.status = 500
  /\ Includes(proc[1].response.error, "with both Gemini and OpenAI. Gemini error: ")

=============================================================================
